---- MODULE Spec2Model ----
(***************************************************************************)
(* Model of the batch auction core of raiku-deterministic-dex.             *)
(*                                                                         *)
(* Part 1: BatchPlanner (services/coordinator/src/batchPlanner.ts), the    *)
(* PlannedBatch table it writes (with the unique index on marketId, slot)  *)
(* and the reservation requests it sends to the Raiku client.              *)
(*                                                                         *)
(* Time is in milliseconds.  One action is one await of the source: the    *)
(* awaited operation takes effect and the code after it runs up to the     *)
(* next await.  Several planAllMarkets invocations may be in flight.       *)
(***************************************************************************)
EXTENDS Integers, Sequences, FiniteSets, TLC

\* ---- bounds of the model ----
\* planning passes started in one behaviour
MaxPasses == 2
\* clock steps plus injected failures (of reservation requests and persistence
\* calls) in one behaviour
MaxEvents == 4
\* config.lookAheadBatches (10 by default, any value by configuration)
lookAheadBatches == 2

\* ---- constants of the program ----
ToleranceMs == 100
slotDurationMs == 400
cutoffLeadMs == 500
MsPerSec == 1000
\* raikuResId: null, and intervalId: undefined
NoId == 0

\* the clock advances in steps of the tolerance width or of the cutoff lead
TimeSteps == {ToleranceMs, cutoffLeadMs}

\* the Market rows (seed.ts and the test market of test-batch-planner), in the
\* order findMany returns them
AllMarkets == <<"SOL-USDC", "TEST-SOL">>
MarketIds == {AllMarkets[i] : i \in 1..Len(AllMarkets)}
cadenceSec == [m \in MarketIds |-> 1]

\* planAllMarkets invocations that may be in flight at once
PassOrder == <<"p1", "p2">>
PassSlots == {PassOrder[i] : i \in 1..Len(PassOrder)}

VARIABLES
    Markets,      \* the active Market rows, in the order findMany returns them
    now,          \* Date.now()
    ticks,        \* clock steps so far
    rows,         \* the PlannedBatch table
    reserveCalls, \* the calls raikuClient.reserveAOT has received
    pass,         \* per slot, the position and locals of a planAllMarkets invocation
    started,      \* planAllMarkets invocations so far
    faults,       \* failures injected so far
    isRunning,    \* BatchPlanner.isRunning
    intervalId,   \* BatchPlanner.intervalId
    timers,       \* the interval timers the runtime holds
    buys,         \* MatchingInput.buys: the buy orders collected, in arrival order
    sells,        \* MatchingInput.sells
    tickSize,     \* MatchingInput.tickSize of the last matchOrders call on this book (0: no call yet)
    result,       \* what the last matchOrders call on this book returned (<<>>: no call yet)
    leaves,       \* the caller's leaf list
    tree,         \* the MerkleTree buildTree returned for it (<<>>: none)
    thrown,       \* buildTree threw on it
    asked,        \* the index of the last getProof call on the tree (<<>>: no call yet)
    proof,        \* the MerkleProof that call returned (<<>>: null, or no call yet)
    verified,     \* the last verify call with that proof: leaf, root and what it returned
    receiptCallbacks, \* RaikuClient.receiptCallbacks
    reservations,     \* RaikuClient.reservations
    nextReservation,  \* the reservations made so far, plus one
    disposers,        \* per onReceipt call so far: its callback, and how often its disposer was called
    loopNow,          \* the event loop's clock, in ms
    timerLists,       \* the pending setTimeout callbacks, one list per delay
    currentList,      \* the list the runtime is running (0: outside the timers phase, -1: between lists)
    dispatched,       \* the receipts handed to receiptCallbacks.forEach so far
    deliveries,       \* the callback invocations so far
    userTable,        \* the User table (wallets)
    orderTable,       \* the Order table
    schedulerNow,        \* Date.now() as the RaikuScheduler reads it
    schedulerEvents,     \* clock steps and injected failures of the scheduler so far
    schedulerRows,       \* the PlannedBatch table the RaikuScheduler writes
    schedulerPass,       \* per slot, the position and locals of a RaikuScheduler.planAllMarkets invocation
    schedulerStarted,    \* RaikuScheduler.planAllMarkets invocations so far
    schedulerIsRunning,  \* RaikuScheduler.isRunning
    schedulerIntervalId, \* RaikuScheduler.intervalId
    schedulerTimers,     \* the interval timers the runtime holds for the scheduler
    buyQtys,          \* the quantities of the buys that take part at the clearing price, in units of 1e-9
    sellQtys,         \* the quantities of the sells that take part
    fills             \* what the allocation of matchOrders returned for them (<<>>: no call yet)

vars == <<Markets, now, ticks, rows, reserveCalls, pass, started, faults, isRunning, intervalId,
          timers>>

\* the state of the matching engine's caller
mvars == <<buys, sells, tickSize, result>>
tvars == <<leaves, tree, thrown, asked, proof, verified>>
\* the state of the Raiku client, of the runtime's timers and of its subscribers
cvars == <<receiptCallbacks, reservations, nextReservation, disposers, loopNow, timerLists,
           currentList, dispatched, deliveries>>

\* the tables commitOrder writes
ovars == <<userTable, orderTable>>

\* the state of the RaikuScheduler
svars == <<schedulerNow, schedulerEvents, schedulerRows, schedulerPass, schedulerStarted,
           schedulerIsRunning, schedulerIntervalId, schedulerTimers>>

\* a book of orders with decimal quantities, and its allocation
pvars == <<buyQtys, sellQtys, fills>>

\* ---- PlannedBatch table ----

\* a plausible slip: the check looks at PLANNED batches only
ExistingBatchPlanned(marketId, batchTime) ==
    {r \in rows : /\ r.marketId = marketId
                  /\ r.status = "PLANNED"
                  /\ r.eta >= batchTime - ToleranceMs
                  /\ r.eta <= batchTime + ToleranceMs}

\* prisma.plannedBatch.findFirst of planSingleBatch
ExistingBatch(marketId, batchTime) ==
    {r \in rows : /\ r.marketId = marketId
                  /\ r.eta >= batchTime - ToleranceMs
                  /\ r.eta <= batchTime + ToleranceMs}

\* Math.floor(batchTime.getTime() / slotDurationMs)
TargetSlot(batchTime) == batchTime \div slotDurationMs

\* a plausible slip: the index is not unique
UniqueViolationNone(marketId, slot) == FALSE

\* CREATE UNIQUE INDEX "PlannedBatch_marketId_slot_key"
UniqueViolation(marketId, slot) ==
    \E r \in rows : r.marketId = marketId /\ r.slot = slot

NewRow(id, marketId, batchTime, status, raikuResId) ==
    [id |-> id, marketId |-> marketId,
     slot |-> TargetSlot(batchTime), eta |-> batchTime,
     status |-> status, raikuResId |-> raikuResId]

\* the include of prisma.market.findMany: the market's PLANNED and
\* INCLUSION_PUBLISHED batches (their etas)
PlannedBatches(marketId) ==
    {r.eta : r \in {x \in rows : /\ x.marketId = marketId
                                 /\ x.status \in {"PLANNED", "INCLUSION_PUBLISHED"}}}

\* ---- planMarketBatches ----

FutureBatches(plannedBatches, t) == {e \in plannedBatches : e > t}

\* the reduce over futureBatches: empty for null
LatestFutureBatch(futureBatches) ==
    {e \in futureBatches : \A o \in futureBatches : o <= e}

\* a plausible slip: the candidates always start from the clock
calculateBatchesToPlanFromNow(t, latestFutureBatch, cadence, lookAhead) ==
    [i \in 1..lookAhead |-> t + i * cadence * MsPerSec]

calculateBatchesToPlan(t, latestFutureBatch, cadence, lookAhead) ==
    LET nextBatchTime ==
            IF latestFutureBatch # {}
            THEN (CHOOSE e \in latestFutureBatch : TRUE) + cadence * MsPerSec
            ELSE t + cadence * MsPerSec
    IN  [i \in 1..lookAhead |-> nextBatchTime + (i - 1) * cadence * MsPerSec]

\* ---- a planAllMarkets invocation ----

IdlePass ==
    [pc |-> "idle", no |-> 0, markets |-> [m \in MarketIds |-> {}], mi |-> 0,
     batchesToPlan |-> <<>>, bi |-> 0, reservationId |-> NoId, startIds |-> {}]

InFlight == {p \in PassSlots : pass[p].pc # "idle"}

\* planMarketBatches(markets[mi]) up to its first await
EnterMarket(ps, mi) ==
    LET m == Markets[mi]
        futureBatches == FutureBatches(ps.markets[m], now)
    IN  [ps EXCEPT !.pc = "findFirst", !.mi = mi, !.bi = 1,
                   !.reservationId = NoId,
                   !.batchesToPlan =
                       calculateBatchesToPlan(now, LatestFutureBatch(futureBatches),
                                              cadenceSec[m], lookAheadBatches)]

\* a plausible slip: an error ends the pass
ResumeAbort(ps, err) ==
    IF err THEN IdlePass
    ELSE IF ps.bi < Len(ps.batchesToPlan)
         THEN [ps EXCEPT !.pc = "findFirst", !.bi = ps.bi + 1, !.reservationId = NoId]
         ELSE IF ps.mi < Len(Markets) THEN EnterMarket(ps, ps.mi + 1) ELSE IdlePass

\* planSingleBatch has returned (err: after logging an error): the loops of
\* planMarketBatches and planAllMarkets go on
Resume(ps, err) ==
    IF ps.bi < Len(ps.batchesToPlan)
    THEN [ps EXCEPT !.pc = "findFirst", !.bi = ps.bi + 1, !.reservationId = NoId]
    ELSE IF ps.mi < Len(Markets) THEN EnterMarket(ps, ps.mi + 1) ELSE IdlePass

BatchTime(ps) == ps.batchesToPlan[ps.bi]
MarketOf(ps) == Markets[ps.mi]

\* a fresh identifier (a cuid, a reservation id): one per invocation and
\* candidate
FreshId(ps) == ((ps.no - 1) * Len(Markets) + (ps.mi - 1)) * lookAheadBatches + ps.bi

\* clock steps and injected failures so far
Events == ticks + faults

\* planAllMarkets() up to its first await
BeginPass(p) ==
    /\ started < MaxPasses
    /\ pass[p].pc = "idle"
    /\ \E i \in 1..Len(PassOrder) :
           /\ PassOrder[i] = p
           /\ \A j \in 1..(i - 1) : pass[PassOrder[j]].pc # "idle"
    /\ pass' = [pass EXCEPT ![p] = [IdlePass EXCEPT !.pc = "findMany",
                                                    !.no = started + 1,
                                                    !.startIds = {r.id : r \in rows}]]
    /\ started' = started + 1

\* a RaikuScheduler.planAllMarkets invocation that is not running
IdleSchedulerPass ==
    [pc |-> "idle", no |-> 0, slotsToPlan |-> <<>>, si |-> 0, reservationId |-> NoId]

\* the delays of the four setTimeout calls of the Raiku client
PreConfirmationDelay == 100
FinalInclusionDelay == 1000
AuctionDelay == 50
FollowUpDelay == 200
Durations == {AuctionDelay, PreConfirmationDelay, FollowUpDelay, FinalInclusionDelay}

InitRest ==
    /\ now = 0
    /\ ticks = 0
    /\ rows = {}
    /\ reserveCalls = {}
    /\ pass = [p \in PassSlots |-> IdlePass]
    /\ started = 0
    /\ faults = 0
    /\ isRunning = FALSE
    /\ intervalId = NoId
    /\ timers = {}
    /\ buys = <<>>
    /\ sells = <<>>
    /\ tickSize = 0
    /\ result = <<>>
    /\ leaves = <<>>
    /\ tree = <<>>
    /\ thrown = FALSE
    /\ asked = <<>>
    /\ proof = <<>>
    /\ verified = <<>>
    /\ receiptCallbacks = <<>>
    /\ reservations = {}
    /\ nextReservation = 1
    /\ disposers = <<>>
    /\ loopNow = 0
    /\ timerLists = [d \in Durations |-> <<>>]
    /\ currentList = 0
    /\ dispatched = <<>>
    /\ deliveries = <<>>
    /\ userTable = {}
    /\ orderTable = {}
    /\ schedulerNow = 0
    /\ schedulerEvents = 0
    /\ schedulerRows = {}
    /\ schedulerPass = [p \in PassSlots |-> IdleSchedulerPass]
    /\ schedulerStarted = 0
    /\ schedulerIsRunning = FALSE
    /\ schedulerIntervalId = NoId
    /\ schedulerTimers = {}
    /\ buyQtys = <<>>
    /\ sellQtys = <<>>
    /\ fills = <<>>

\* one active market
Init ==
    /\ Markets = SubSeq(AllMarkets, 1, 1)
    /\ InitRest

\* every market active
InitSerial ==
    /\ Markets = AllMarkets
    /\ InitRest

\* the clock
Tick ==
    /\ Events < MaxEvents
    /\ \E d \in TimeSteps : now' = now + d
    /\ ticks' = ticks + 1
    /\ UNCHANGED <<Markets, rows, reserveCalls, pass, started, faults, isRunning,
                   intervalId, timers>>

\* ---- the steps of a pass, one per await ----

\* await prisma.market.findMany(...): the snapshot, then planMarketBatches of
\* the first market up to its first await; or the query throws, which
\* planAllMarkets catches and logs
PassFindMany(p) ==
    /\ pass[p].pc = "findMany"
    /\ \/ /\ pass' = [pass EXCEPT ![p] =
                   EnterMarket([pass[p] EXCEPT !.markets =
                                    [m \in MarketIds |-> PlannedBatches(m)]], 1)]
          /\ UNCHANGED faults
       \/ /\ Events < MaxEvents
          /\ faults' = faults + 1
          /\ pass' = [pass EXCEPT ![p] = IdlePass]
    /\ UNCHANGED <<Markets, now, ticks, rows, reserveCalls, started, isRunning, intervalId, timers>>

\* await prisma.plannedBatch.findFirst(...) of planSingleBatch
PassFindFirst(p) ==
    /\ pass[p].pc = "findFirst"
    /\ LET ps == pass[p] IN
       \/ /\ ExistingBatch(MarketOf(ps), BatchTime(ps)) # {}
          /\ pass' = [pass EXCEPT ![p] = Resume(ps, FALSE)]
          /\ UNCHANGED faults
       \/ /\ ExistingBatch(MarketOf(ps), BatchTime(ps)) = {}
          /\ pass' = [pass EXCEPT ![p].pc = "reserveAOT"]
          /\ UNCHANGED faults
       \/ /\ Events < MaxEvents
          /\ faults' = faults + 1
          /\ pass' = [pass EXCEPT ![p].pc = "createFailed"]
    /\ UNCHANGED <<Markets, now, ticks, rows, reserveCalls, started, isRunning, intervalId, timers>>

ReserveCall(ps, ok) ==
    [id |-> FreshId(ps), market |-> MarketOf(ps),
     slot |-> TargetSlot(BatchTime(ps)), eta |-> BatchTime(ps), ok |-> ok]

\* await raikuClient.reserveAOT(marketSymbol, targetSlot)
PassReserveAOT(p) ==
    /\ pass[p].pc = "reserveAOT"
    /\ LET ps == pass[p] IN
       \/ /\ reserveCalls' = reserveCalls \cup {ReserveCall(ps, TRUE)}
          /\ pass' = [pass EXCEPT ![p].pc = "create",
                                  ![p].reservationId = ReserveCall(ps, TRUE).id]
          /\ UNCHANGED faults
       \/ /\ Events < MaxEvents
          /\ faults' = faults + 1
          /\ reserveCalls' = reserveCalls \cup {ReserveCall(ps, FALSE)}
          /\ pass' = [pass EXCEPT ![p].pc = "createFailed"]
    /\ UNCHANGED <<Markets, now, ticks, rows, started, isRunning, intervalId, timers>>

\* await prisma.plannedBatch.create({status: PLANNED, raikuResId: reservationId})
PassCreate(p) ==
    /\ pass[p].pc = "create"
    /\ LET ps == pass[p] IN
       \/ /\ ~UniqueViolation(MarketOf(ps), TargetSlot(BatchTime(ps)))
          /\ rows' = rows \cup {NewRow(FreshId(ps), MarketOf(ps), BatchTime(ps),
                                        "PLANNED", ps.reservationId)}
          /\ pass' = [pass EXCEPT ![p] = Resume(ps, FALSE)]
          /\ UNCHANGED faults
       \/ /\ UniqueViolation(MarketOf(ps), TargetSlot(BatchTime(ps)))
          /\ pass' = [pass EXCEPT ![p].pc = "createFailed"]
          /\ UNCHANGED <<rows, faults>>
       \/ /\ Events < MaxEvents
          /\ faults' = faults + 1
          /\ pass' = [pass EXCEPT ![p].pc = "createFailed"]
          /\ UNCHANGED rows
    /\ UNCHANGED <<Markets, now, ticks, reserveCalls, started, isRunning, intervalId, timers>>

\* a plausible slip: the catch block logs and persists nothing
PassCreateFailedDrop(p) ==
    /\ pass[p].pc = "createFailed"
    /\ pass' = [pass EXCEPT ![p] = Resume(pass[p], TRUE)]
    /\ UNCHANGED <<Markets, now, ticks, rows, reserveCalls, started, faults,
                   isRunning, intervalId, timers>>

\* a plausible slip: the catch block overwrites the row that holds the slot
PassCreateFailedUpsert(p) ==
    /\ pass[p].pc = "createFailed"
    /\ LET ps == pass[p] IN
       rows' = {r \in rows : ~(r.marketId = MarketOf(ps) /\ r.slot = TargetSlot(BatchTime(ps)))}
                   \cup {NewRow(FreshId(ps), MarketOf(ps), BatchTime(ps), "FAILED", NoId)}
    /\ pass' = [pass EXCEPT ![p] = Resume(pass[p], TRUE)]
    /\ UNCHANGED <<Markets, now, ticks, reserveCalls, started, faults,
                   isRunning, intervalId, timers>>

\* the catch block of planSingleBatch:
\* await prisma.plannedBatch.create({status: FAILED, raikuResId: null}),
\* whose own failure is caught and logged
PassCreateFailed(p) ==
    /\ pass[p].pc = "createFailed"
    /\ LET ps == pass[p] IN
       \/ /\ ~UniqueViolation(MarketOf(ps), TargetSlot(BatchTime(ps)))
          /\ rows' = rows \cup {NewRow(FreshId(ps), MarketOf(ps), BatchTime(ps),
                                        "FAILED", NoId)}
          /\ UNCHANGED faults
       \/ /\ UniqueViolation(MarketOf(ps), TargetSlot(BatchTime(ps)))
          /\ UNCHANGED <<rows, faults>>
       \/ /\ Events < MaxEvents
          /\ faults' = faults + 1
          /\ UNCHANGED rows
    /\ pass' = [pass EXCEPT ![p] = Resume(pass[p], TRUE)]
    /\ UNCHANGED <<Markets, now, ticks, reserveCalls, started, isRunning, intervalId, timers>>

\* ---- the public operations ----

\* setInterval returns a timer the runtime does not hold yet
FreshTimer == CHOOSE i \in 1..(Cardinality(timers) + 1) : i \notin timers

\* a plausible slip: start() without the isRunning guard
StartUnguarded ==
    /\ isRunning' = TRUE
    /\ \E p \in PassSlots : BeginPass(p)
    /\ intervalId' = FreshTimer
    /\ timers' = timers \cup {FreshTimer}
    /\ UNCHANGED <<Markets, now, ticks, rows, reserveCalls, faults>>

\* start()
Start ==
    \/ /\ isRunning
       /\ UNCHANGED vars
    \/ /\ ~isRunning
       /\ isRunning' = TRUE
       /\ \E p \in PassSlots : BeginPass(p)
       /\ intervalId' = FreshTimer
       /\ timers' = timers \cup {FreshTimer}
       /\ UNCHANGED <<Markets, now, ticks, rows, reserveCalls, faults>>

\* a plausible slip: stop() resets the flag and the field, and leaves the timer
\* with the runtime
StopKeepsTimer ==
    /\ intervalId' = NoId
    /\ isRunning' = FALSE
    /\ UNCHANGED <<Markets, now, ticks, rows, reserveCalls, pass, started, faults, timers>>

\* stop()
Stop ==
    /\ timers' = IF intervalId # NoId THEN timers \ {intervalId} ELSE timers
    /\ intervalId' = NoId
    /\ isRunning' = FALSE
    /\ UNCHANGED <<Markets, now, ticks, rows, reserveCalls, pass, started, faults>>

\* the callback of setInterval
TimerFire ==
    /\ \E t \in timers : \E p \in PassSlots : BeginPass(p)
    /\ UNCHANGED <<Markets, now, ticks, rows, reserveCalls, faults, isRunning, intervalId, timers>>

\* forcePlan()
ForcePlan ==
    /\ \E p \in PassSlots : BeginPass(p)
    /\ UNCHANGED <<Markets, now, ticks, rows, reserveCalls, faults, isRunning, intervalId, timers>>

\* getBatchCutoffTime
getBatchCutoffTime(batchTime) == batchTime - cutoffLeadMs

\* a plausible slip: the query does not filter on status
NextBatchRowsAnyStatus(marketId) ==
    LET found == {r \in rows : /\ r.marketId = marketId
                               /\ r.eta > now + cutoffLeadMs}
    IN  {r \in found : \A o \in found : r.eta <= o.eta}

\* the rows prisma.plannedBatch.findFirst of findNextBatchForOrder may return:
\* status PLANNED, eta > now + cutoffLeadMs, the first by eta ascending
NextBatchRows(marketId) ==
    LET found == {r \in rows : /\ r.marketId = marketId
                               /\ r.status = "PLANNED"
                               /\ r.eta > now + cutoffLeadMs}
    IN  {r \in found : \A o \in found : r.eta <= o.eta}

\* the values findNextBatchForOrder(marketId) may return (batch NoId: null);
\* dbError: the query throws, which is caught and logged
findNextBatchForOrder(marketId, dbError) ==
    IF dbError \/ NextBatchRows(marketId) = {}
    THEN {[batch |-> NoId, slot |-> 0, eta |-> 0, cutoffTime |-> now]}
    ELSE {[batch |-> r.id, slot |-> r.slot, eta |-> r.eta,
           cutoffTime |-> getBatchCutoffTime(r.eta)] : r \in NextBatchRows(marketId)}

\* a call of findNextBatchForOrder: it returns a value and changes nothing
FindNextBatchForOrder(marketId) ==
    /\ \E dbError \in BOOLEAN : findNextBatchForOrder(marketId, dbError) # {}
    /\ UNCHANGED vars

Next ==
    \/ Tick /\ UNCHANGED <<mvars, tvars, cvars, ovars, svars, pvars>>
    \/ Start /\ UNCHANGED <<mvars, tvars, cvars, ovars, svars, pvars>>
    \/ Stop /\ UNCHANGED <<mvars, tvars, cvars, ovars, svars, pvars>>
    \/ TimerFire /\ UNCHANGED <<mvars, tvars, cvars, ovars, svars, pvars>>
    \/ ForcePlan /\ UNCHANGED <<mvars, tvars, cvars, ovars, svars, pvars>>
    \/ \E p \in PassSlots : PassFindMany(p) /\ UNCHANGED <<mvars, tvars, cvars, ovars, svars, pvars>>
    \/ \E p \in PassSlots : PassFindFirst(p) /\ UNCHANGED <<mvars, tvars, cvars, ovars, svars, pvars>>
    \/ \E p \in PassSlots : PassReserveAOT(p) /\ UNCHANGED <<mvars, tvars, cvars, ovars, svars, pvars>>
    \/ \E p \in PassSlots : PassCreate(p) /\ UNCHANGED <<mvars, tvars, cvars, ovars, svars, pvars>>
    \/ \E p \in PassSlots : PassCreateFailed(p) /\ UNCHANGED <<mvars, tvars, cvars, ovars, svars, pvars>>
    \/ \E m \in MarketIds : FindNextBatchForOrder(m) /\ UNCHANGED <<mvars, tvars, cvars, ovars, svars, pvars>>

\* one active market, passes may overlap
Spec == Init /\ [][Next]_vars

\* planIntervalMs exceeds the duration of a pass: no pass starts while another
\* is in flight
SerialStep ==
    /\ Cardinality({p \in PassSlots : pass'[p].pc # "idle"}) <= 1
    /\ UNCHANGED <<mvars, tvars, cvars, ovars, svars, pvars>>

NextSerial ==
    \/ Tick /\ SerialStep
    \/ Start /\ SerialStep
    \/ Stop /\ SerialStep
    \/ TimerFire /\ SerialStep
    \/ ForcePlan /\ SerialStep
    \/ \E p \in PassSlots : PassFindMany(p) /\ SerialStep
    \/ \E p \in PassSlots : PassFindFirst(p) /\ SerialStep
    \/ \E p \in PassSlots : PassReserveAOT(p) /\ SerialStep
    \/ \E p \in PassSlots : PassCreate(p) /\ SerialStep
    \/ \E p \in PassSlots : PassCreateFailed(p) /\ SerialStep
    \/ \E m \in MarketIds : FindNextBatchForOrder(m) /\ SerialStep

\* every market active, passes one at a time
SpecSerial == InitSerial /\ [][NextSerial]_vars
(***************************************************************************)
(* Part 2: the uniform price matching engine (matchOrders and its helpers, *)
(* src/unnamed/part_005; types of src/apps/web/lib/matching/types.ts).     *)
(*                                                                         *)
(* A price is a count of units of 0.005, so 10.5 is 2100 and a tick of     *)
(* 0.01 is 2; the limit prices of the model are even counts, so a midpoint *)
(* of two of them is a count again, and for these prices and ticks the     *)
(* double arithmetic of alignToTick is exact.  An order quantity is a      *)
(* whole number and so are the sums of order quantities; a filled quantity *)
(* is a double, computed with the rounding of IEEE 754 arithmetic.         *)
(***************************************************************************)

\* ---- bounds of the model ----
\* orders on one side of the book
MaxSide == 2
\* orders on one side of a book of market orders
MaxTied == 3

\* ---- constants of the program ----
\* a limitPx that is absent (a market order)
undefined == -1
\* the Infinity of limitPx ?? Infinity: above every price of the model
Infinity == 1000000
\* the 1e9 of Math.floor(filledQty * 1e9) / 1e9
Precision == 1000000000

\* 10.0, 10.5, 11.0, 11.5
Prices == {2000, 2100, 2200, 2300}
Qtys == {50, 70, 100}
\* tickSize 0.01 and 1.0
Ticks == {2, 200}
\* only the order of the timestamps of a side matters to the sorts: the first
\* order of a side is stamped with the latest timestamp, a further one with any
\* (earlier, or the same; a later one would sort as one with the same does)
Timestamps == {1000, 1001}
OrderIds == [BUY |-> <<"buy1", "buy2", "buy3", "buy4">>,
             SELL |-> <<"sell1", "sell2", "sell3", "sell4">>]

\* ---- IEEE 754 double precision numbers (the number type of JavaScript) ----
\* A natural number is a sequence of limbs, least significant first, without
\* a leading zero limb (<<>> is 0).  A finite double is [neg, m, e] for the
\* value (-1)^neg * m * 2^e, where m is zero or has exactly MantissaBits bits.
\* Every operation rounds to nearest, ties to even.  The quantities of the
\* model are far from the overflow and underflow thresholds, which are left
\* out.

\* bits of a significand
MantissaBits == 53
\* bits of a limb
LimbBits == 20

RECURSIVE Pow2(_)
Pow2(k) == IF k = 0 THEN 1 ELSE 2 * Pow2(k - 1)

LimbBase == Pow2(LimbBits)
\* the bits of the largest factor or divisor taken in one step, and that factor
SmallBits == LimbBits \div 2
SmallMax == Pow2(SmallBits)
\* the factor of a larger divisor
Thousand == 1000

Front(s) == SubSeq(s, 1, Len(s) - 1)
Last(s) == s[Len(s)]

RECURSIVE NTrim(_)
NTrim(a) == IF a # <<>> /\ Last(a) = 0 THEN NTrim(Front(a)) ELSE a

\* a number 0 <= n < 2^31
NFromInt(n) ==
    IF n = 0 THEN <<>>
    ELSE IF n < LimbBase THEN <<n>>
    ELSE <<n % LimbBase, n \div LimbBase>>

\* the number of bits of a limb
RECURSIVE BitLen(_)
BitLen(x) == IF x = 0 THEN 0 ELSE 1 + BitLen(x \div 2)

NBitLen(a) == IF a = <<>> THEN 0 ELSE LimbBits * (Len(a) - 1) + BitLen(Last(a))

\* -1, 0, 1 as a < b, a = b, a > b
RECURSIVE NCmp(_, _)
NCmp(a, b) ==
    IF Len(a) # Len(b) THEN (IF Len(a) < Len(b) THEN -1 ELSE 1)
    ELSE IF a = <<>> THEN 0
    ELSE IF Last(a) # Last(b) THEN (IF Last(a) < Last(b) THEN -1 ELSE 1)
    ELSE NCmp(Front(a), Front(b))

RECURSIVE NAddCarry(_, _, _)
NAddCarry(a, b, carry) ==
    IF a = <<>> /\ b = <<>> THEN NFromInt(carry)
    ELSE LET x == IF a = <<>> THEN 0 ELSE Head(a)
             y == IF b = <<>> THEN 0 ELSE Head(b)
             s == x + y + carry
         IN  <<s % LimbBase>> \o NAddCarry(IF a = <<>> THEN a ELSE Tail(a),
                                           IF b = <<>> THEN b ELSE Tail(b),
                                           s \div LimbBase)

NAdd(a, b) == NAddCarry(a, b, 0)

\* a - b for a >= b
RECURSIVE NSubBorrow(_, _, _)
NSubBorrow(a, b, borrow) ==
    IF a = <<>> THEN <<>>
    ELSE LET y == IF b = <<>> THEN 0 ELSE Head(b)
             d == Head(a) - y - borrow
         IN  <<IF d < 0 THEN d + LimbBase ELSE d>>
             \o NSubBorrow(Tail(a), IF b = <<>> THEN b ELSE Tail(b),
                           IF d < 0 THEN 1 ELSE 0)

NSub(a, b) == NTrim(NSubBorrow(a, b, 0))

\* a * k for 0 <= k <= SmallMax
RECURSIVE NMulCarry(_, _, _)
NMulCarry(a, k, carry) ==
    IF a = <<>> THEN NFromInt(carry)
    ELSE LET p == Head(a) * k + carry
         IN  <<p % LimbBase>> \o NMulCarry(Tail(a), k, p \div LimbBase)

NMulSmall(a, k) == NTrim(NMulCarry(a, k, 0))

\* a * k for 0 <= k < 2^31
RECURSIVE NMul(_, _)
NMul(a, k) ==
    IF k = 0 THEN <<>>
    ELSE NAdd(NMulSmall(a, k % SmallMax),
              NMulSmall(NMul(a, k \div SmallMax), SmallMax))

\* a divided by d, 0 < d <= SmallMax, from the most significant limb down:
\* the quotient and the remainder
RECURSIVE NDivRem(_, _, _)
NDivRem(a, d, r) ==
    IF a = <<>> THEN [q |-> <<>>, r |-> r]
    ELSE LET x == r * LimbBase + Last(a)
             rest == NDivRem(Front(a), d, x % d)
         IN  [q |-> Append(rest.q, x \div d), r |-> rest.r]

\* a divided by d: the quotient, and whether there is a remainder.  A divisor
\* above SmallMax is taken as a product of factors 1000 (the model divides
\* by sums of order quantities and by 1e9)
RECURSIVE NDiv(_, _)
NDiv(a, d) ==
    IF d <= SmallMax
    THEN LET dr == NDivRem(a, d, 0) IN [q |-> NTrim(dr.q), inexact |-> dr.r # 0]
    ELSE LET dr == NDivRem(a, Thousand, 0)
             up == NDiv(NTrim(dr.q), d \div Thousand)
         IN  IF d % Thousand = 0
             THEN [q |-> up.q, inexact |-> up.inexact \/ dr.r # 0]
             ELSE CHOOSE unsupported \in {} : TRUE

\* a * 2^k
RECURSIVE NShl(_, _)
NShl(a, k) ==
    IF k = 0 \/ a = <<>> THEN a
    ELSE IF k >= LimbBits THEN <<0>> \o NShl(a, k - LimbBits)
    ELSE IF k > SmallBits THEN NMulSmall(NShl(a, k - SmallBits), SmallMax)
    ELSE NMulSmall(a, Pow2(k))

\* a divided by 2^k: the quotient, and whether there is a remainder
RECURSIVE NShr(_, _)
NShr(a, k) ==
    IF k = 0 \/ a = <<>> THEN [q |-> a, inexact |-> FALSE]
    ELSE IF k >= LimbBits
    THEN LET up == NShr(Tail(a), k - LimbBits)
         IN  [q |-> up.q, inexact |-> up.inexact \/ Head(a) # 0]
    ELSE IF k > SmallBits
    THEN LET dr == NDiv(a, SmallMax)
             up == NShr(dr.q, k - SmallBits)
         IN  [q |-> up.q, inexact |-> up.inexact \/ dr.inexact]
    ELSE NDiv(a, Pow2(k))

NOdd(a) == a # <<>> /\ Head(a) % 2 = 1

\* the double 0
Zero == [neg |-> FALSE, m |-> <<>>, e |-> 0]

\* a significand of at most MantissaBits + 1 bits: a carry out of the
\* rounding drops the last bit, which is 0
Normal(neg, m, e) ==
    IF NBitLen(m) > MantissaBits
    THEN [neg |-> neg, m |-> NDiv(m, 2).q, e |-> e + 1]
    ELSE [neg |-> neg, m |-> m, e |-> e]

\* round to nearest, a tie to the even significand: kept are the leading
\* MantissaBits bits, half is the bit after them, sticky tells a bit
\* after that
RoundUp(neg, kept, e, half, sticky) ==
    Normal(neg, IF half /\ (sticky \/ NOdd(kept)) THEN NAdd(kept, <<1>>) ELSE kept, e)

\* withHalf holds the leading MantissaBits + 1 bits
RoundHalf(neg, withHalf, e, sticky) ==
    RoundUp(neg, NDiv(withHalf.q, 2).q, e, NOdd(withHalf.q), withHalf.inexact \/ sticky)

\* a has n bits
RoundBits(neg, a, e, sticky, n) ==
    IF n <= MantissaBits
    THEN [neg |-> neg, m |-> NShl(a, MantissaBits - n), e |-> e - (MantissaBits - n)]
    ELSE RoundHalf(neg, NShr(a, n - MantissaBits - 1), e + (n - MantissaBits), sticky)

\* the double nearest to (-1)^neg * (a + f) * 2^e, where 0 <= f < 1 and
\* sticky tells f > 0: a tie goes to the even significand
RoundToDouble(neg, a, e, sticky) ==
    IF a = <<>> THEN Zero ELSE RoundBits(neg, a, e, sticky, NBitLen(a))

\* a number -2^31 < n < 2^31 as a double
Double(n) == RoundToDouble(n < 0, NFromInt(IF n < 0 THEN -n ELSE n), 0, FALSE)

\* x * k for a number 0 < k < 2^31
DoubleTimes(x, k) == RoundToDouble(x.neg, NMul(x.m, k), x.e, FALSE)

\* dr is x.m * 2^z divided by the divisor
DoubleOverShifted(x, dr, z) == RoundToDouble(x.neg, dr.q, x.e - z, dr.inexact)

DoubleOverBits(x, d, z) == DoubleOverShifted(x, NDiv(NShl(x.m, z), d), z)

\* x / d for a number 0 < d < 2^31
DoubleOver(x, d) == DoubleOverBits(x, d, 3 + NBitLen(NFromInt(d)))

\* Math.floor(x) for x >= 0
DoubleFloor(x) ==
    IF x.e >= 0 THEN x
    ELSE IF -x.e >= MantissaBits THEN Zero
    ELSE RoundToDouble(x.neg, NShr(x.m, -x.e).q, 0, FALSE)

DoubleNeg(x) == [x EXCEPT !.neg = ~x.neg /\ x.m # <<>>]

\* (-1)^xneg * a * 2^e + (-1)^yneg * b * 2^e
PlusAligned(xneg, a, yneg, b, e) ==
    RoundToDouble(IF xneg = yneg \/ NCmp(a, b) >= 0 THEN xneg ELSE yneg,
                  IF xneg = yneg THEN NAdd(a, b)
                  ELSE IF NCmp(a, b) >= 0 THEN NSub(a, b) ELSE NSub(b, a),
                  e, FALSE)

PlusAt(x, y, e) == PlusAligned(x.neg, NShl(x.m, x.e - e), y.neg, NShl(y.m, y.e - e), e)

\* x + y
DoublePlus(x, y) ==
    IF x.m = <<>> THEN y
    ELSE IF y.m = <<>> THEN x
    ELSE PlusAt(x, y, IF x.e < y.e THEN x.e ELSE y.e)

\* x - y
DoubleMinus(x, y) == DoublePlus(x, DoubleNeg(y))

\* x <= y
NonPositive(d) == d.m = <<>> \/ d.neg
DoubleLeq(x, y) == NonPositive(DoubleMinus(x, y))

\* a * LimbBase
NShiftLimb(a) == IF a = <<>> THEN a ELSE <<0>> \o a

\* a * b
RECURSIVE NTimes(_, _)
NTimes(a, b) ==
    IF b = <<>> THEN <<>>
    ELSE NAdd(NMul(a, Head(b)), NShiftLimb(NTimes(a, Tail(b))))

\* x * y
DoubleMultiply(x, y) ==
    IF x.m = <<>> \/ y.m = <<>> THEN Zero
    ELSE RoundToDouble(x.neg # y.neg, NTimes(x.m, y.m), x.e + y.e, FALSE)

\* long division, bit by bit: q holds the quotient bits so far, r2 < 2 * d is
\* twice the remainder, k bits are still to come
RECURSIVE NDivideBits(_, _, _, _)
RECURSIVE NDivideRest(_, _, _, _)
NDivideBits(r2, d, q, k) ==
    IF NCmp(r2, d) >= 0
    THEN NDivideRest(NSub(r2, d), d, NAdd(NAdd(q, q), <<1>>), k - 1)
    ELSE NDivideRest(r2, d, NAdd(q, q), k - 1)

\* r < d is the remainder
NDivideRest(r, d, q, k) ==
    IF k = 0 THEN [q |-> q, r |-> r]
    ELSE NDivideBits(NAdd(r, r), d, q, k)

\* the quotient bits kept below the first come in ChunkCount chunks of ChunkBits
ChunkBits == 8
ChunkCount == 7
QuotientBits == ChunkBits * ChunkCount

\* ChunkBits more bits of the quotient
NDivideChunk(dr, d) == NDivideRest(dr.r, d, dr.q, ChunkBits)

\* the chunks one after the other (each is computed before the next is begun)
RECURSIVE NDivideChunks(_, _, _)
NDivideChunks(dr, d, chunks) ==
    IF chunks = 0 \/ dr.q = <<-1>> THEN dr
    ELSE NDivideChunks(NDivideChunk(dr, d), d, chunks - 1)

\* dr is the quotient of the significands, scaled by 2^QuotientBits, and the
\* remainder
DoubleQuotient(neg, dr, e) == RoundToDouble(neg, dr.q, e - QuotientBits, dr.r # <<>>)

\* x / y for y # 0: the significands have MantissaBits bits each, so the
\* quotient has one bit at most before the point
DoubleDivide(x, y) ==
    IF x.m = <<>> THEN Zero
    ELSE DoubleQuotient(x.neg # y.neg,
                        NDivideChunks(IF NCmp(x.m, y.m) >= 0
                                      THEN [q |-> <<1>>, r |-> NSub(x.m, y.m)]
                                      ELSE [q |-> <<>>, r |-> x.m],
                                      y.m, ChunkCount),
                        x.e - y.e)

\* Math.floor(((qty * availableQty) / totalQty) * 1e9) / 1e9
RoundedQty(qty, availableQty, totalQty) ==
    DoubleOver(DoubleFloor(DoubleTimes(DoubleOver(Double(qty * availableQty), totalQty),
                                       Precision)), Precision)

\* ---- sorting ----

\* limitPx ?? dflt
PxOr(order, dflt) == IF order.limitPx = undefined THEN dflt ELSE order.limitPx

\* the comparator of sortBuys: price highest first, a market order as
\* Infinity, then timestamp earliest first
BuyBefore(a, b) ==
    \/ PxOr(a, Infinity) > PxOr(b, Infinity)
    \/ (PxOr(a, Infinity) = PxOr(b, Infinity) /\ a.timestamp < b.timestamp)

\* the comparator of sortSells: price lowest first, a market order as 0
SellBefore(a, b) ==
    \/ PxOr(a, 0) < PxOr(b, 0)
    \/ (PxOr(a, 0) = PxOr(b, 0) /\ a.timestamp < b.timestamp)

\* [...orders].sort(compare) with the comparator of a side:
\* Array.prototype.sort is stable
StableSort(orders, side) ==
    LET n == Len(orders)
        Before(a, b) == IF side = "BUY" THEN BuyBefore(a, b) ELSE SellBefore(a, b)
        rank(i) == 1 + Cardinality({j \in 1..n :
                           \/ Before(orders[j], orders[i])
                           \/ (~Before(orders[i], orders[j]) /\ j < i)})
    IN  [k \in 1..n |-> orders[CHOOSE i \in 1..n : rank(i) = k]]

sortBuys(orders) == StableSort(orders, "BUY")
sortSells(orders) == StableSort(orders, "SELL")

\* ---- findClearingPrice ----

\* Math.round(price / tickSize) * tickSize (Math.round rounds a half up); a
\* price that is not finite is returned as it is
alignToTick(price, tick) ==
    IF price >= Infinity THEN Infinity
    ELSE ((2 * price + tick) \div (2 * tick)) * tick

\* (a + b) / 2
Midpoint(a, b) == IF a >= Infinity \/ b >= Infinity THEN Infinity ELSE (a + b) \div 2

Range(s) == {s[i] : i \in 1..Len(s)}

RECURSIVE SumQty(_)
SumQty(orders) ==
    IF orders = <<>> THEN 0 ELSE Head(orders).qty + SumQty(Tail(orders))

SelectLimit(orders, price) == SelectSeq(orders, LAMBDA o : o.limitPx = price)
SelectMarket(orders) == SelectSeq(orders, LAMBDA o : o.limitPx = undefined)

Max(S) == CHOOSE x \in S : \A y \in S : y <= x
Min(S) == CHOOSE x \in S : \A y \in S : x <= y

\* the price levels left to walk, lowest first
RECURSIVE SortedPrices(_)
SortedPrices(S) ==
    IF S = {} THEN <<>> ELSE <<Min(S)>> \o SortedPrices(S \ {Min(S)})

\* a plausible slip: the level's buys are added before the test
RECURSIVE WalkBuysFirst(_, _, _, _, _)
WalkBuysFirst(sortedPrices, bs, ss, cumulativeBuy, cumulativeSell) ==
    IF sortedPrices = <<>>
    THEN [clearingPrice |-> 0, cumulativeBuy |-> cumulativeBuy,
          cumulativeSell |-> cumulativeSell]
    ELSE LET price == Head(sortedPrices)
             sell == cumulativeSell + SumQty(SelectLimit(ss, price))
             buy == cumulativeBuy + SumQty(SelectLimit(bs, price))
         IN  IF buy >= sell /\ sell > 0
             THEN [clearingPrice |-> price, cumulativeBuy |-> buy, cumulativeSell |-> sell]
             ELSE WalkBuysFirst(Tail(sortedPrices), bs, ss, buy, sell)

\* the walk over sortedPrices: at each level add the level's sells, test the
\* crossing, break on it, else add the level's buys
RECURSIVE Walk(_, _, _, _, _)
Walk(sortedPrices, bs, ss, cumulativeBuy, cumulativeSell) ==
    IF sortedPrices = <<>>
    THEN [clearingPrice |-> 0, cumulativeBuy |-> cumulativeBuy,
          cumulativeSell |-> cumulativeSell]
    ELSE LET price == Head(sortedPrices)
             sell == cumulativeSell + SumQty(SelectLimit(ss, price))
         IN  IF cumulativeBuy >= sell /\ sell > 0
             THEN [clearingPrice |-> price, cumulativeBuy |-> cumulativeBuy,
                   cumulativeSell |-> sell]
             ELSE Walk(Tail(sortedPrices), bs, ss,
                       cumulativeBuy + SumQty(SelectLimit(bs, price)), sell)

\* the best sell price: the lowest, a market order counting as 0
NoBuysPriceBest(ss) == PxOr(sortSells(ss)[1], 0)

\* sells[0]?.limitPx ?? 0
NoBuysPrice(ss) == PxOr(ss[1], 0)

\* a plausible slip: with no sells, the best bid as the no-buys case takes a sell
NoSellsPriceBestBid(bs) == PxOr(sortBuys(bs)[1], Infinity)

\* only buys: no clearing price
NoSellsPrice(bs) == 0

findClearingPrice(bs, ss, tick) ==
    IF bs = <<>> /\ ss = <<>> THEN 0
    ELSE IF bs = <<>> THEN alignToTick(NoBuysPrice(ss), tick)
    ELSE IF ss = <<>> THEN NoSellsPrice(bs)
    ELSE
    LET sortedBuys == sortBuys(bs)
        sortedSells == sortSells(ss)
        allPrices == {o.limitPx : o \in {x \in Range(bs) \cup Range(ss) :
                                            x.limitPx # undefined}}
    IN  IF allPrices = {}
        THEN alignToTick(Midpoint(PxOr(sortedBuys[1], Infinity),
                                  PxOr(sortedSells[1], 0)), tick)
        ELSE
        LET walked == Walk(SortedPrices(allPrices), bs, ss, 0, 0)
            marketBuys == SelectMarket(bs)
            marketSells == SelectMarket(ss)
            cumulativeBuy == walked.cumulativeBuy + SumQty(marketBuys)
            cumulativeSell == walked.cumulativeSell + SumQty(marketSells)
            bestBid == Max({PxOr(o, 0) : o \in Range(bs)} \cup {0})
            bestAsk == Min({PxOr(o, Infinity) : o \in Range(ss)} \cup {Infinity})
        IN  IF /\ walked.clearingPrice = 0
               /\ (marketBuys # <<>> \/ marketSells # <<>>)
               /\ cumulativeBuy >= cumulativeSell
               /\ cumulativeSell > 0
            THEN alignToTick(Midpoint(bestBid, bestAsk), tick)
            ELSE alignToTick(walked.clearingPrice, tick)

\* ---- allocateProRata ----

Allocation(order, filledQty, clearingPrice) ==
    [orderId |-> order.id, filledQty |-> filledQty, fillPrice |-> clearingPrice]

\* a plausible slip: the last order gets its rounded share like the others
RECURSIVE ProRataLoopNoRemainder(_, _, _, _)
ProRataLoopNoRemainder(qtys, availableQty, totalQty, remaining) ==
    IF qtys = <<>> THEN <<>>
    ELSE <<RoundedQty(Head(qtys), availableQty, totalQty)>>
         \o ProRataLoopNoRemainder(Tail(qtys), availableQty, totalQty, remaining)

\* the loop of allocateProRata over the orders' quantities: the filled
\* quantities, of which the last is what remains
RECURSIVE ProRataLoop(_, _, _, _)
ProRataLoop(qtys, availableQty, totalQty, remaining) ==
    IF Len(qtys) = 1
    THEN <<remaining>>
    ELSE LET roundedQty == RoundedQty(Head(qtys), availableQty, totalQty)
         IN  <<roundedQty>>
             \o ProRataLoop(Tail(qtys), availableQty, totalQty,
                            DoubleMinus(remaining, roundedQty))

RECURSIVE Sum(_)
Sum(qtys) == IF qtys = <<>> THEN 0 ELSE Head(qtys) + Sum(Tail(qtys))

\* the quantities of the orders of one side, and the volumes available to it
Deepest == IF MaxSide > MaxTied THEN MaxSide ELSE MaxTied
QtySeqs == UNION {[1..k -> Qtys] : k \in 1..Deepest}
Volumes == {Sum(qtys) : qtys \in QtySeqs}

\* the filled quantities of allocateProRata by the orders' quantities and the
\* available quantity, computed once (@@ builds the function with its values)
FilledQtys ==
    [key \in QtySeqs \X Volumes |->
        LET qtys == key[1]
            availableQty == key[2]
        IN  IF Sum(qtys) <= availableQty
            THEN [i \in 1..Len(qtys) |-> Double(qtys[i])]
            ELSE ProRataLoop(qtys, availableQty, Sum(qtys), Double(availableQty))]
    @@ <<>>

allocateProRata(orders, availableQty, clearingPrice) ==
    IF availableQty <= 0 \/ orders = <<>> THEN <<>>
    ELSE LET filledQtys == FilledQtys[<<[i \in 1..Len(orders) |-> orders[i].qty], availableQty>>]
         IN  [i \in 1..Len(orders) |-> Allocation(orders[i], filledQtys[i], clearingPrice)]

\* ---- matchOrders ----

\* a plausible slip: every buy takes part
ValidBuysAll(bs, clearingPrice) == bs

\* the filter of matchOrders on buys
ValidBuys(bs, clearingPrice) ==
    SelectSeq(bs, LAMBDA o : /\ o.side = "BUY"
                             /\ \/ o.type = "MARKET"
                                \/ (o.limitPx # undefined /\ o.limitPx >= clearingPrice))

\* the filter of matchOrders on sells
ValidSells(ss, clearingPrice) ==
    SelectSeq(ss, LAMBDA o : /\ o.side = "SELL"
                             /\ \/ o.type = "MARKET"
                                \/ (o.limitPx # undefined /\ o.limitPx <= clearingPrice))

MatchingResult(clearingPrice, allocations, totalVolume) ==
    [clearingPrice |-> clearingPrice, allocations |-> allocations,
     totalVolume |-> totalVolume]

matchOrders(bs, ss, tick) ==
    IF bs = <<>> /\ ss = <<>> THEN MatchingResult(0, <<>>, 0)
    ELSE
    LET clearingPrice == findClearingPrice(bs, ss, tick)
        validBuys == ValidBuys(bs, clearingPrice)
        validSells == ValidSells(ss, clearingPrice)
    IN  IF validBuys = <<>> \/ validSells = <<>>
        THEN MatchingResult(clearingPrice, <<>>, 0)
        ELSE
        LET sortedBuys == sortBuys(validBuys)
            sortedSells == sortSells(validSells)
            totalBuyVolume == SumQty(sortedBuys)
            totalSellVolume == SumQty(sortedSells)
            totalVolume == IF totalBuyVolume <= totalSellVolume
                           THEN totalBuyVolume ELSE totalSellVolume
        IN  MatchingResult(clearingPrice,
                           allocateProRata(sortedBuys, totalVolume, clearingPrice)
                           \o allocateProRata(sortedSells, totalVolume, clearingPrice),
                           totalVolume)

\* ---- the caller: orders are collected, then matched ----

\* an Order as createOrder builds it: a market order has no limitPx
Order(id, side, qty, limitPx, timestamp) ==
    [id |-> id, side |-> side, qty |-> qty, limitPx |-> limitPx, timestamp |-> timestamp,
     type |-> IF limitPx = undefined THEN "MARKET" ELSE "LIMIT"]

\* the timestamps the next order of a side may carry
StampsFor(orders) == IF orders = <<>> THEN {Max(Timestamps)} ELSE Timestamps

\* an order joins the buys: the result of an earlier call is of another book
SubmitBuy ==
    /\ Len(buys) < MaxSide
    /\ \E qty \in Qtys, limitPx \in Prices \cup {undefined}, timestamp \in StampsFor(buys) :
           buys' = Append(buys, Order(OrderIds.BUY[Len(buys) + 1], "BUY", qty, limitPx,
                                      timestamp))
    /\ tickSize' = 0
    /\ result' = <<>>
    /\ UNCHANGED sells

\* an order joins the sells
SubmitSell ==
    /\ Len(sells) < MaxSide
    /\ \E qty \in Qtys, limitPx \in Prices \cup {undefined}, timestamp \in StampsFor(sells) :
           sells' = Append(sells, Order(OrderIds.SELL[Len(sells) + 1], "SELL", qty, limitPx,
                                        timestamp))
    /\ tickSize' = 0
    /\ result' = <<>>
    /\ UNCHANGED buys

\* matchOrders({ buys, sells, tickSize })
MatchOrders ==
    /\ \E tick \in Ticks :
           /\ tickSize' = tick
           /\ result' = <<matchOrders(buys, sells, tick)>>
    /\ UNCHANGED <<buys, sells>>

NextMatch ==
    \/ SubmitBuy /\ UNCHANGED <<vars, tvars, cvars, ovars, svars, pvars>>
    \/ SubmitSell /\ UNCHANGED <<vars, tvars, cvars, ovars, svars, pvars>>
    \/ MatchOrders /\ UNCHANGED <<vars, tvars, cvars, ovars, svars, pvars>>

\* the matching engine alone: the planner stays as constructed
SpecMatch == Init /\ [][NextMatch]_mvars

\* a market order joins the buys
SubmitMarketBuy ==
    /\ Len(buys) < MaxTied
    /\ \E qty \in Qtys, timestamp \in StampsFor(buys) :
           buys' = Append(buys, Order(OrderIds.BUY[Len(buys) + 1], "BUY", qty, undefined,
                                      timestamp))
    /\ tickSize' = 0
    /\ result' = <<>>
    /\ UNCHANGED sells

\* a market order joins the sells
SubmitMarketSell ==
    /\ Len(sells) < MaxTied
    /\ \E qty \in Qtys, timestamp \in StampsFor(sells) :
           sells' = Append(sells, Order(OrderIds.SELL[Len(sells) + 1], "SELL", qty, undefined,
                                        timestamp))
    /\ tickSize' = 0
    /\ result' = <<>>
    /\ UNCHANGED buys

NextMarket ==
    \/ SubmitMarketBuy /\ UNCHANGED <<vars, tvars, cvars, ovars, svars, pvars>>
    \/ SubmitMarketSell /\ UNCHANGED <<vars, tvars, cvars, ovars, svars, pvars>>
    \/ MatchOrders /\ UNCHANGED <<vars, tvars, cvars, ovars, svars, pvars>>

\* the matching engine on deeper books of market orders
SpecMarket == Init /\ [][NextMarket]_mvars


\* ======== Part 3: the Merkle tree (buildTree, getProof, verify) ========

\* leaves a caller may hand to buildTree
MaxLeaves == 5

\* Buffer.alloc(32)
DigestBytes == 32
\* the marks around the data of a digest
ShaOpen == -1
ShaClose == -2

\* A Buffer is its sequence of bytes.  A SHA-256 digest is written as the
\* hashed data between two marks: one digest for each byte string, equal
\* digests only for equal data.
sha256(data) == <<ShaOpen>> \o data \o <<ShaClose>>

\* the leaves of the model: "ab", "ba", "aba"
LeafPool == {<<97, 98>>, <<98, 97>>, <<97, 98, 97>>}

\* a.compare(b): bytewise, a proper prefix first
compare(a, b) ==
    LET n == IF Len(a) < Len(b) THEN Len(a) ELSE Len(b)
        differ == {i \in 1..n : a[i] # b[i]}
    IN  IF differ = {}
        THEN (IF Len(a) < Len(b) THEN -1 ELSE IF Len(a) > Len(b) THEN 1 ELSE 0)
        ELSE IF a[Min(differ)] < b[Min(differ)] THEN -1 ELSE 1

\* a plausible slip: the pair is hashed as given
hashNodeUnsorted(a, b) == sha256(a \o b)

hashNode(a, b) ==
    LET sorted == IF compare(a, b) < 0 THEN <<a, b>> ELSE <<b, a>>
    IN  sha256(sorted[1] \o sorted[2])

\* Math.ceil(Math.log2(n))
CeilLog2(n) == CHOOSE k \in 0..n : Pow2(k) >= n /\ \A j \in 0..(k - 1) : Pow2(j) < n

\* a plausible slip: every tree has a combination step
NextPowerOf2AtLeastTwo(n) == IF n = 1 THEN 2 ELSE Pow2(CeilLog2(n))

\* Math.pow(2, Math.ceil(Math.log2(treeLeaves.length)))
NextPowerOf2(n) == Pow2(CeilLog2(n))

ZeroBuffer == [i \in 1..DigestBytes |-> 0]

\* a plausible slip: the padding repeats the last leaf
RECURSIVE PadRepeatLast(_, _)
PadRepeatLast(treeLeaves, nextPowerOf2) ==
    IF Len(treeLeaves) < nextPowerOf2
    THEN PadRepeatLast(Append(treeLeaves, treeLeaves[Len(treeLeaves)]), nextPowerOf2)
    ELSE treeLeaves

\* while (treeLeaves.length < nextPowerOf2) treeLeaves.push(Buffer.alloc(32))
RECURSIVE Pad(_, _)
Pad(treeLeaves, nextPowerOf2) ==
    IF Len(treeLeaves) < nextPowerOf2
    THEN Pad(Append(treeLeaves, ZeroBuffer), nextPowerOf2)
    ELSE treeLeaves

\* the inner loop of buildTree: the parents of the pairs of a level
NextLevel(currentLevel) ==
    [i \in 1..((Len(currentLevel) + 1) \div 2) |->
        hashNode(currentLevel[2 * i - 1], currentLevel[2 * i])]

\* Math.log2(treeLeaves.length), of a power of two
Levels(treeLeaves) == CeilLog2(Len(treeLeaves))

\* the outer loop of buildTree from a level on
RECURSIVE BuildLevels(_, _)
BuildLevels(levels, level) ==
    IF level < Levels(levels[1])
    THEN LET nextLevel == NextLevel(levels[level + 1])
         IN  IF Len(nextLevel) = 1
             THEN Append(levels, nextLevel)
             ELSE BuildLevels(Append(levels, nextLevel), level + 1)
    ELSE levels

MerkleTree(levels) ==
    [root |-> levels[Len(levels)][1], leaves |-> levels[1], tree |-> levels]

\* buildTree on a non-empty list
buildTree(ls) == MerkleTree(BuildLevels(<<Pad(ls, NextPowerOf2(Len(ls)))>>, 0))

\* a plausible slip: the padding is pushed onto the caller's list
InputAliased(ls, treeLeaves) == treeLeaves

\* const treeLeaves = [...leaves]: the caller's list after buildTree
InputCopied(ls, treeLeaves) == ls

\* a plausible slip: the sibling is the node itself
SiblingIndexSelf(currentIndex) == currentIndex

SiblingIndex(currentIndex) ==
    IF currentIndex % 2 = 1 THEN currentIndex - 1 ELSE currentIndex + 1

\* the loop of getProof from a level on
RECURSIVE ProofPath(_, _, _)
ProofPath(t, level, currentIndex) ==
    IF level < Len(t.tree) - 1
    THEN LET currentLevel == t.tree[level + 1]
             siblingIndex == SiblingIndex(currentIndex)
         IN  (IF siblingIndex < Len(currentLevel)
              THEN <<currentLevel[siblingIndex + 1]>> ELSE <<>>)
             \o ProofPath(t, level + 1, currentIndex \div 2)
    ELSE <<>>

MerkleProof(leaf, index, path) == [leaf |-> leaf, index |-> index, path |-> path]

\* getProof: a sequence with the proof, empty for null
getProof(t, index) ==
    IF index < 0 \/ index >= Len(t.leaves) THEN <<>>
    ELSE <<MerkleProof(t.leaves[index + 1], index, ProofPath(t, 0, index))>>

VerifyStart(leaf, p) == leaf

\* the loop of verify
RECURSIVE VerifyPath(_, _)
VerifyPath(current, path) ==
    IF path = <<>> THEN current
    ELSE LET sibling == Head(path)
             leftHash == hashNode(current, sibling)
             rightHash == hashNode(sibling, current)
         IN  VerifyPath(IF leftHash = rightHash THEN leftHash ELSE leftHash, Tail(path))

verify(leaf, p, root) == VerifyPath(VerifyStart(leaf, p), p.path) = root

\* ---- the caller: collect leaves, build, prove, verify ----

\* a root that is not the tree's
WrongRoot == [i \in 1..DigestBytes |-> 255]

\* the indices asked of getProof
Indices == -1..(NextPowerOf2(MaxLeaves) + 1)

\* a leaf joins the caller's list
PushLeaf ==
    /\ Len(leaves) < MaxLeaves
    /\ \E leaf \in LeafPool : leaves' = Append(leaves, leaf)
    /\ tree' = <<>>
    /\ thrown' = FALSE
    /\ asked' = <<>>
    /\ proof' = <<>>
    /\ verified' = <<>>

\* buildTree(leaves)
BuildTree ==
    /\ tree = <<>>
    /\ ~thrown
    /\ IF Len(leaves) = 0
       THEN thrown' = TRUE /\ UNCHANGED <<leaves, tree>>
       ELSE /\ tree' = <<buildTree(leaves)>>
            /\ leaves' = InputCopied(leaves, tree'[1].leaves)
            /\ UNCHANGED thrown
    /\ UNCHANGED <<asked, proof, verified>>

\* getProof(tree, index)
GetProof ==
    /\ tree # <<>>
    /\ \E index \in Indices :
           /\ asked' = <<index>>
           /\ proof' = getProof(tree[1], index)
    /\ verified' = <<>>
    /\ UNCHANGED <<leaves, tree, thrown>>

\* verify(leaf, proof, root)
Verify ==
    /\ proof # <<>>
    /\ \E leaf \in LeafPool \cup {proof[1].leaf, ZeroBuffer}, root \in {tree[1].root, WrongRoot} :
           verified' = <<[leaf |-> leaf, root |-> root, valid |-> verify(leaf, proof[1], root)]>>
    /\ UNCHANGED <<leaves, tree, thrown, asked, proof>>

NextMerkle ==
    \/ PushLeaf /\ UNCHANGED <<vars, mvars, cvars, ovars, svars, pvars>>
    \/ BuildTree /\ UNCHANGED <<vars, mvars, cvars, ovars, svars, pvars>>
    \/ GetProof /\ UNCHANGED <<vars, mvars, cvars, ovars, svars, pvars>>
    \/ Verify /\ UNCHANGED <<vars, mvars, cvars, ovars, svars, pvars>>

\* the Merkle tree alone
SpecMerkle == Init /\ [][NextMerkle]_tvars

\* ================================================================
\* Part 4: the Raiku client (src/apps/web/lib/raiku/client.ts) and its
\* subscribers
\* ================================================================

MaxReservations == 2
MaxSubscriptions == 2
MaxDisposerCalls == 2

\* the times at which a pending timer is due
DueTimes(lists) ==
    UNION {{lists[d][i].idleStart + d : i \in 1..Len(lists[d])} : d \in Durations}

\* the subscribers: a callback that only records, and the callback of
\* testJITRequest, which calls its disposer once it has seen both receipts
\* or a failure
Callbacks == {"logger", "testHandler"}

\* receivedEvents of a callback
Received(callback, log) ==
    {log[i].type : i \in {j \in 1..Len(log) : log[j].callback = callback}}

\* the two unsubscribe() conditions of the test's callback
Disposes(callback, received) ==
    /\ callback = "testHandler"
    /\ \/ "pre-confirmation" \in received /\ "final-inclusion" \in received
       \/ "failed" \in received

\* receiptCallbacks.indexOf(callback), from 1; 0 for none
IndexOf(callbacks, callback) ==
    IF \E i \in 1..Len(callbacks) : callbacks[i] = callback
    THEN Min({i \in 1..Len(callbacks) : callbacks[i] = callback})
    ELSE 0

\* receiptCallbacks.splice(index, 1)
Splice(callbacks, index) ==
    SubSeq(callbacks, 1, index - 1) \o SubSeq(callbacks, index + 1, Len(callbacks))

\* the disposer onReceipt returns
Unsubscribe(callbacks, callback) ==
    IF IndexOf(callbacks, callback) > 0
    THEN Splice(callbacks, IndexOf(callbacks, callback))
    ELSE callbacks

\* what the callback did with the receipt, given the log with this call on it
Invoked(callbacks, callback, log) ==
    [callbacks |-> IF Disposes(callback, Received(callback, log))
                   THEN Unsubscribe(callbacks, callback)
                   ELSE callbacks,
     log |-> log]

\* cb(receipt)
Invoke(st, callback, receipt) ==
    Invoked(st.callbacks, callback,
            Append(st.log, [callback |-> callback, type |-> receipt.type,
                            reservationId |-> receipt.reservationId]))

\* receiptCallbacks.forEach(cb => cb(receipt)): the indices below the length
\* at the start, each one if the array still has it
RECURSIVE ForEach(_, _, _, _)
ForEach(st, k, len, receipt) ==
    IF k > len \/ k > Len(st.callbacks)
    THEN st
    ELSE ForEach(Invoke(st, st.callbacks[k], receipt), k + 1, len, receipt)

Dispatch(callbacks, log, receipt) ==
    ForEach([callbacks |-> callbacks, log |-> log], 1, Len(callbacks), receipt)

\* setTimeout(fn, d) at time t: the timer joins the list of its delay
SetTimeout(lists, fn, id, d, t) ==
    [lists EXCEPT ![d] = Append(@, [idleStart |-> t, fn |-> fn, reservationId |-> id])]

\* Node.js keeps one list of timers per delay, each in the order the timers
\* were set, and in its timers phase runs the lists in the order of their
\* expiry, each list through every timer of it that is due.
\* the lists whose first timer is due
DueLists(lists, t) ==
    {d \in Durations : lists[d] # <<>> /\ lists[d][1].idleStart + d <= t}

\* the runtime takes the list that expires first
TopLists(lists, t) ==
    {d \in DueLists(lists, t) :
        \A e \in DueLists(lists, t) :
            lists[d][1].idleStart + d <= lists[e][1].idleStart + e}

\* after a timer of list d has run: the runtime stays on the list while its
\* next timer is due, then takes the next list that is due, then leaves the
\* timers phase
Continue(lists, d, t) ==
    IF d \in DueLists(lists, t) THEN d
    ELSE IF DueLists(lists, t) # {} THEN -1
    ELSE 0

\* this.reservations.has(reservationId)
Has(id) == \E r \in reservations : r.reservationId = id

\* this.reservations.set(reservationId, reservation)
Set(id, kind) ==
    reservations \cup {[reservationId |-> id, kind |-> kind, status |-> "pending"]}

\* res.status = status
WithStatus(id, status) ==
    {IF r.reservationId = id THEN [r EXCEPT !.status = status] ELSE r : r \in reservations}

\* reserveAOT(market, targetSlot)
ReserveAOT ==
    /\ currentList = 0
    /\ nextReservation <= MaxReservations
    /\ reservations' = Set(nextReservation, "aot")
    /\ timerLists' = SetTimeout(SetTimeout(timerLists, "aotPreConfirmation", nextReservation,
                                           PreConfirmationDelay, loopNow),
                                "aotFinalInclusion", nextReservation, FinalInclusionDelay, loopNow)
    /\ nextReservation' = nextReservation + 1
    /\ UNCHANGED <<receiptCallbacks, disposers, loopNow, currentList, dispatched, deliveries>>

\* requestJIT(market, bidAmount)
RequestJIT ==
    /\ currentList = 0
    /\ nextReservation <= MaxReservations
    /\ reservations' = Set(nextReservation, "jit")
    /\ timerLists' = SetTimeout(timerLists, "jitAuction", nextReservation, AuctionDelay, loopNow)
    /\ nextReservation' = nextReservation + 1
    /\ UNCHANGED <<receiptCallbacks, disposers, loopNow, currentList, dispatched, deliveries>>

\* the receipt a timer callback builds
ReceiptOf(timer, won) ==
    [type |-> IF timer.fn \in {"aotFinalInclusion", "jitFinalInclusion"} THEN "final-inclusion"
              ELSE IF timer.fn = "jitAuction" /\ ~won THEN "failed"
              ELSE "pre-confirmation",
     reservationId |-> timer.reservationId]

\* the status a timer callback writes
StatusOf(timer, won) ==
    IF timer.fn = "aotFinalInclusion" THEN "finalized"
    ELSE IF won THEN "won" ELSE "lost"

\* the timer callback ran with the reservation present: receipt dispatched,
\* after is the state forEach left
Emitted(timer, won, receipt, after) ==
    /\ receiptCallbacks' = after.callbacks
    /\ deliveries' = after.log
    /\ dispatched' = Append(dispatched, receipt)
    /\ reservations' = IF timer.fn \in {"aotFinalInclusion", "jitAuction"}
                       THEN WithStatus(timer.reservationId, StatusOf(timer, won))
                       ELSE reservations

\* the timers left once the callback has run: a won auction sets the
\* follow-up timer
TimersAfter(lists, timer, won) ==
    IF Has(timer.reservationId) /\ timer.fn = "jitAuction" /\ won
    THEN SetTimeout(lists, "jitFinalInclusion", timer.reservationId, FollowUpDelay, loopNow)
    ELSE lists

\* the first timer of list d runs
Fire(d, timer, won, lists) ==
    /\ IF Has(timer.reservationId)
       THEN Emitted(timer, won, ReceiptOf(timer, won),
                    Dispatch(receiptCallbacks, deliveries, ReceiptOf(timer, won)))
       ELSE UNCHANGED <<receiptCallbacks, deliveries, dispatched, reservations>>
    /\ timerLists' = lists
    /\ currentList' = Continue(lists, d, loopNow)
    /\ UNCHANGED <<nextReservation, disposers, loopNow>>

\* a setTimeout callback runs; won is Math.random() > 0.1
TimeoutFires ==
    \E d \in Durations, won \in BOOLEAN :
        /\ IF currentList > 0 THEN d = currentList ELSE d \in TopLists(timerLists, loopNow)
        /\ Fire(d, timerLists[d][1], won,
                TimersAfter([timerLists EXCEPT ![d] = Tail(@)], timerLists[d][1], won))

\* onReceipt(callback)
OnReceipt ==
    /\ currentList = 0
    /\ Len(disposers) < MaxSubscriptions
    /\ \E callback \in Callbacks :
           /\ receiptCallbacks' = Append(receiptCallbacks, callback)
           /\ disposers' = Append(disposers, [callback |-> callback, calls |-> 0])
    /\ UNCHANGED <<reservations, nextReservation, loopNow, timerLists, currentList, dispatched,
                   deliveries>>

\* a caller runs the disposer an onReceipt call returned
Dispose ==
    /\ currentList = 0
    /\ \E k \in 1..Len(disposers) :
           /\ disposers[k].calls < MaxDisposerCalls
           /\ receiptCallbacks' = Unsubscribe(receiptCallbacks, disposers[k].callback)
           /\ disposers' = [disposers EXCEPT ![k].calls = @ + 1]
    /\ UNCHANGED <<reservations, nextReservation, loopNow, timerLists, currentList,
                   dispatched, deliveries>>

\* clearReservations()
ClearReservations ==
    /\ currentList = 0
    /\ reservations' = {}
    /\ UNCHANGED <<receiptCallbacks, nextReservation, disposers, loopNow, timerLists, currentList,
                   dispatched, deliveries>>

\* time passes, up to the time a pending timer is due
AdvanceTime ==
    /\ currentList = 0
    /\ \E t \in DueTimes(timerLists) :
           /\ loopNow < t
           /\ loopNow' = t
    /\ UNCHANGED <<receiptCallbacks, reservations, nextReservation, disposers, timerLists,
                   currentList, dispatched, deliveries>>

NextClient ==
    \/ ReserveAOT /\ UNCHANGED <<vars, mvars, tvars, ovars, svars, pvars>>
    \/ RequestJIT /\ UNCHANGED <<vars, mvars, tvars, ovars, svars, pvars>>
    \/ TimeoutFires /\ UNCHANGED <<vars, mvars, tvars, ovars, svars, pvars>>
    \/ OnReceipt /\ UNCHANGED <<vars, mvars, tvars, ovars, svars, pvars>>
    \/ Dispose /\ UNCHANGED <<vars, mvars, tvars, ovars, svars, pvars>>
    \/ ClearReservations /\ UNCHANGED <<vars, mvars, tvars, ovars, svars, pvars>>
    \/ AdvanceTime /\ UNCHANGED <<vars, mvars, tvars, ovars, svars, pvars>>

\* the client alone
SpecClient == Init /\ [][NextClient]_cvars

(***************************************************************************)
(* Part 5: order intake (the commitOrder mutation of the GraphQL           *)
(* resolvers, src/unnamed/part_004), next to a planner whose passes do not *)
(* overlap.                                                                *)
(***************************************************************************)

\* orders accepted per behaviour
MaxOrders == 1

Wallets == {"alice"}
Symbols == MarketIds \cup {"NO-MARKET"}

\* prisma.plannedBatch.findFirst({where: {marketId, status: 'PLANNED'},
\* orderBy: {slot: 'asc'}}) of commitOrder
FirstPlannedBatch(marketId) ==
    LET found == {r \in rows : r.marketId = marketId /\ r.status = "PLANNED"}
    IN  {r \in found : \A o \in found : r.slot <= o.slot}

NewOrder(wallet, marketId, plannedBatch) ==
    [id |-> Cardinality(orderTable) + 1, userId |-> wallet, marketId |-> marketId,
     status |-> "PENDING", plannedBatchId |-> plannedBatch.id, createdAt |-> now]

\* the commitOrder mutation
CommitOrder(symbol, wallet) ==
    /\ Cardinality(orderTable) < MaxOrders
    /\ IF symbol \notin MarketIds
       THEN UNCHANGED <<userTable, orderTable>>         \* throws: market not found
       ELSE /\ userTable' = userTable \cup {wallet}     \* find or create user
            /\ IF FirstPlannedBatch(symbol) = {}
               THEN UNCHANGED orderTable            \* throws: no upcoming batch
               ELSE \E plannedBatch \in FirstPlannedBatch(symbol) :
                        orderTable' = orderTable \cup {NewOrder(wallet, symbol, plannedBatch)}

NextOrders ==
    \/ Tick /\ SerialStep
    \/ Start /\ SerialStep
    \/ Stop /\ SerialStep
    \/ TimerFire /\ SerialStep
    \/ ForcePlan /\ SerialStep
    \/ \E p \in PassSlots : PassFindMany(p) /\ SerialStep
    \/ \E p \in PassSlots : PassFindFirst(p) /\ SerialStep
    \/ \E p \in PassSlots : PassReserveAOT(p) /\ SerialStep
    \/ \E p \in PassSlots : PassCreate(p) /\ SerialStep
    \/ \E p \in PassSlots : PassCreateFailed(p) /\ SerialStep
    \/ \E symbol \in Symbols, wallet \in Wallets :
           CommitOrder(symbol, wallet) /\ UNCHANGED <<vars, mvars, tvars, cvars, svars, pvars>>

\* one active market, passes one at a time, orders coming in
SpecOrders == Init /\ [][NextOrders]_<<vars, ovars>>

(***************************************************************************)
(* Part 6: the RaikuScheduler (src/unnamed/part_006), which plans by slot, *)
(* with the one market of src/scripts/test-scheduler.ts (cadence 1 s).     *)
(***************************************************************************)

\* SchedulerConfig.lookAheadSlots
lookAheadSlots == 2
\* SchedulerConfig.planIntervalMs
planIntervalMs == 2000
\* planAllMarkets invocations per behaviour
MaxSchedulerPasses == 2
\* clock steps and injected failures per behaviour
MaxSchedulerEvents == 3

SchedulerMarket == "TEST-SOL"
SchedulerSteps == {slotDurationMs, planIntervalMs}

\* Math.ceil(a / b) for positive integers
CeilDiv(a, b) == (a + b - 1) \div b

\* RaikuScheduler.calculateSlotsToPlan
calculateSlotsToPlan(currentSlot, latestPlannedSlot, cadence, lookAhead) ==
    LET nextSlot == IF currentSlot + 1 >= latestPlannedSlot + 1
                    THEN currentSlot + 1 ELSE latestPlannedSlot + 1
        slotsPerCadence == CeilDiv(cadence * 1000, slotDurationMs)
    IN  [i \in 1..lookAhead |-> nextSlot + (i - 1) * slotsPerCadence]

\* RaikuScheduler.getCurrentSlot
getCurrentSlot == schedulerNow \div slotDurationMs

\* RaikuScheduler.getSlotTime
getSlotTime(slot) == slot * slotDurationMs

\* the include of prisma.market.findMany: the slots of the market's PLANNED
\* and INCLUSION_PUBLISHED batches
SchedulerPlannedBatches ==
    {r.slot : r \in {x \in schedulerRows : x.status \in {"PLANNED", "INCLUSION_PUBLISHED"}}}

\* Math.max(0, ...plannedBatches.map(b => b.slot))
LatestPlannedSlot(plannedBatches) ==
    CHOOSE x \in plannedBatches \cup {0} : \A o \in plannedBatches \cup {0} : o <= x

\* planMarketBatches up to its first await
EnterSchedulerMarket(ps, plannedBatches) ==
    [ps EXCEPT !.pc = "findUnique", !.si = 1, !.reservationId = NoId,
               !.slotsToPlan = calculateSlotsToPlan(getCurrentSlot,
                                                    LatestPlannedSlot(plannedBatches),
                                                    cadenceSec[SchedulerMarket],
                                                    lookAheadSlots)]

\* planSingleBatch has returned: the loop of planMarketBatches goes on
SchedulerResume(ps) ==
    IF ps.si < Len(ps.slotsToPlan)
    THEN [ps EXCEPT !.pc = "findUnique", !.si = ps.si + 1, !.reservationId = NoId]
    ELSE IdleSchedulerPass

TargetSlotOf(ps) == ps.slotsToPlan[ps.si]

SchedulerRow(ps, status, raikuResId) ==
    [marketId |-> SchedulerMarket, slot |-> TargetSlotOf(ps),
     eta |-> getSlotTime(TargetSlotOf(ps)), status |-> status, raikuResId |-> raikuResId]

\* the unique index on (marketId, slot)
SlotTaken(slot) == \E r \in schedulerRows : r.slot = slot

\* planAllMarkets() up to its first await
SchedulerBeginPass(p) ==
    /\ schedulerStarted < MaxSchedulerPasses
    /\ schedulerPass[p].pc = "idle"
    /\ \E i \in 1..Len(PassOrder) :
           /\ PassOrder[i] = p
           /\ \A j \in 1..(i - 1) : schedulerPass[PassOrder[j]].pc # "idle"
    /\ schedulerPass' = [schedulerPass EXCEPT ![p] =
                             [IdleSchedulerPass EXCEPT !.pc = "findMany",
                                                       !.no = schedulerStarted + 1]]
    /\ schedulerStarted' = schedulerStarted + 1

\* the clock
SchedulerTick ==
    /\ schedulerEvents < MaxSchedulerEvents
    /\ \E d \in SchedulerSteps : schedulerNow' = schedulerNow + d
    /\ schedulerEvents' = schedulerEvents + 1
    /\ UNCHANGED <<schedulerRows, schedulerPass, schedulerStarted, schedulerIsRunning,
                   schedulerIntervalId, schedulerTimers>>

\* await prisma.market.findMany(...), then planMarketBatches up to its first await
SchedulerFindMany(p) ==
    /\ schedulerPass[p].pc = "findMany"
    /\ \/ /\ schedulerPass' = [schedulerPass EXCEPT ![p] =
                                   EnterSchedulerMarket(schedulerPass[p],
                                                        SchedulerPlannedBatches)]
          /\ UNCHANGED schedulerEvents
       \/ /\ schedulerEvents < MaxSchedulerEvents
          /\ schedulerEvents' = schedulerEvents + 1
          /\ schedulerPass' = [schedulerPass EXCEPT ![p] = IdleSchedulerPass]
    /\ UNCHANGED <<schedulerNow, schedulerRows, schedulerStarted, schedulerIsRunning,
                   schedulerIntervalId, schedulerTimers>>

\* await prisma.plannedBatch.findUnique({marketId_slot}) of planSingleBatch
SchedulerFindUnique(p) ==
    /\ schedulerPass[p].pc = "findUnique"
    /\ LET ps == schedulerPass[p] IN
       \/ /\ SlotTaken(TargetSlotOf(ps))
          /\ schedulerPass' = [schedulerPass EXCEPT ![p] = SchedulerResume(ps)]
          /\ UNCHANGED schedulerEvents
       \/ /\ ~SlotTaken(TargetSlotOf(ps))
          /\ schedulerPass' = [schedulerPass EXCEPT ![p].pc = "reserveAOT"]
          /\ UNCHANGED schedulerEvents
       \/ /\ schedulerEvents < MaxSchedulerEvents
          /\ schedulerEvents' = schedulerEvents + 1
          /\ schedulerPass' = [schedulerPass EXCEPT ![p].pc = "createFailed"]
    /\ UNCHANGED <<schedulerNow, schedulerRows, schedulerStarted, schedulerIsRunning,
                   schedulerIntervalId, schedulerTimers>>

\* await raikuClient.reserveAOT(marketSymbol, targetSlot)
SchedulerReserveAOT(p) ==
    /\ schedulerPass[p].pc = "reserveAOT"
    /\ LET ps == schedulerPass[p] IN
       \/ /\ schedulerPass' = [schedulerPass EXCEPT
                                   ![p].pc = "create",
                                   ![p].reservationId = (ps.no - 1) * lookAheadSlots + ps.si]
          /\ UNCHANGED schedulerEvents
       \/ /\ schedulerEvents < MaxSchedulerEvents
          /\ schedulerEvents' = schedulerEvents + 1
          /\ schedulerPass' = [schedulerPass EXCEPT ![p].pc = "createFailed"]
    /\ UNCHANGED <<schedulerNow, schedulerRows, schedulerStarted, schedulerIsRunning,
                   schedulerIntervalId, schedulerTimers>>

\* await prisma.plannedBatch.create({status: PLANNED, raikuResId: reservationId})
SchedulerCreate(p) ==
    /\ schedulerPass[p].pc = "create"
    /\ LET ps == schedulerPass[p] IN
       \/ /\ ~SlotTaken(TargetSlotOf(ps))
          /\ schedulerRows' = schedulerRows \cup {SchedulerRow(ps, "PLANNED", ps.reservationId)}
          /\ schedulerPass' = [schedulerPass EXCEPT ![p] = SchedulerResume(ps)]
          /\ UNCHANGED schedulerEvents
       \/ /\ SlotTaken(TargetSlotOf(ps))
          /\ schedulerPass' = [schedulerPass EXCEPT ![p].pc = "createFailed"]
          /\ UNCHANGED <<schedulerRows, schedulerEvents>>
       \/ /\ schedulerEvents < MaxSchedulerEvents
          /\ schedulerEvents' = schedulerEvents + 1
          /\ schedulerPass' = [schedulerPass EXCEPT ![p].pc = "createFailed"]
          /\ UNCHANGED schedulerRows
    /\ UNCHANGED <<schedulerNow, schedulerStarted, schedulerIsRunning,
                   schedulerIntervalId, schedulerTimers>>

\* the catch block of planSingleBatch:
\* await prisma.plannedBatch.create({status: FAILED, raikuResId: null}),
\* whose own failure is caught and logged
SchedulerCreateFailed(p) ==
    /\ schedulerPass[p].pc = "createFailed"
    /\ LET ps == schedulerPass[p] IN
       \/ /\ ~SlotTaken(TargetSlotOf(ps))
          /\ schedulerRows' = schedulerRows \cup {SchedulerRow(ps, "FAILED", NoId)}
          /\ UNCHANGED schedulerEvents
       \/ /\ SlotTaken(TargetSlotOf(ps))
          /\ UNCHANGED <<schedulerRows, schedulerEvents>>
       \/ /\ schedulerEvents < MaxSchedulerEvents
          /\ schedulerEvents' = schedulerEvents + 1
          /\ UNCHANGED schedulerRows
    /\ schedulerPass' = [schedulerPass EXCEPT ![p] = SchedulerResume(schedulerPass[p])]
    /\ UNCHANGED <<schedulerNow, schedulerStarted, schedulerIsRunning,
                   schedulerIntervalId, schedulerTimers>>

\* setInterval returns a timer the runtime does not hold yet
FreshSchedulerTimer ==
    CHOOSE i \in 1..(Cardinality(schedulerTimers) + 1) : i \notin schedulerTimers

\* start()
SchedulerStart ==
    \/ /\ schedulerIsRunning
       /\ UNCHANGED svars
    \/ /\ ~schedulerIsRunning
       /\ schedulerIsRunning' = TRUE
       /\ \E p \in PassSlots : SchedulerBeginPass(p)
       /\ schedulerIntervalId' = FreshSchedulerTimer
       /\ schedulerTimers' = schedulerTimers \cup {FreshSchedulerTimer}
       /\ UNCHANGED <<schedulerNow, schedulerEvents, schedulerRows>>

\* stop()
SchedulerStop ==
    /\ schedulerTimers' = IF schedulerIntervalId # NoId
                          THEN schedulerTimers \ {schedulerIntervalId}
                          ELSE schedulerTimers
    /\ schedulerIntervalId' = NoId
    /\ schedulerIsRunning' = FALSE
    /\ UNCHANGED <<schedulerNow, schedulerEvents, schedulerRows, schedulerPass,
                   schedulerStarted>>

\* the callback of setInterval
SchedulerTimerFire ==
    /\ \E t \in schedulerTimers : \E p \in PassSlots : SchedulerBeginPass(p)
    /\ UNCHANGED <<schedulerNow, schedulerEvents, schedulerRows, schedulerIsRunning,
                   schedulerIntervalId, schedulerTimers>>

NextScheduler ==
    \/ SchedulerTick /\ UNCHANGED <<vars, mvars, tvars, cvars, ovars, pvars>>
    \/ SchedulerStart /\ UNCHANGED <<vars, mvars, tvars, cvars, ovars, pvars>>
    \/ SchedulerStop /\ UNCHANGED <<vars, mvars, tvars, cvars, ovars, pvars>>
    \/ SchedulerTimerFire /\ UNCHANGED <<vars, mvars, tvars, cvars, ovars, pvars>>
    \/ \E p \in PassSlots : SchedulerFindMany(p) /\ UNCHANGED <<vars, mvars, tvars, cvars, ovars, pvars>>
    \/ \E p \in PassSlots : SchedulerFindUnique(p) /\ UNCHANGED <<vars, mvars, tvars, cvars, ovars, pvars>>
    \/ \E p \in PassSlots : SchedulerReserveAOT(p) /\ UNCHANGED <<vars, mvars, tvars, cvars, ovars, pvars>>
    \/ \E p \in PassSlots : SchedulerCreate(p) /\ UNCHANGED <<vars, mvars, tvars, cvars, ovars, pvars>>
    \/ \E p \in PassSlots : SchedulerCreateFailed(p) /\ UNCHANGED <<vars, mvars, tvars, cvars, ovars, pvars>>

\* the scheduler alone
SpecScheduler == Init /\ [][NextScheduler]_svars

(***************************************************************************)
(* Part 7: the allocation stage of matchOrders (its lines from the volume  *)
(* sums to the result, and allocateProRata, src/unnamed/part_005) on       *)
(* orders with decimal quantities.  A quantity is given as the number k of *)
(* units of 1e-9 of its decimal literal k / 1e9 (Order.qty is a number).   *)
(***************************************************************************)

\* buys and sells taking part, at most
MaxBuyQtys == 3
MaxSellQtys == 2

\* 0.5, 1 and 1.499999999
NanoQtys == {500000000, 1000000000, 1499999999}

\* the double of the literal k / 1e9
Amount(k) == DoubleOver(Double(k), Precision)

Amounts(nanos) == [i \in 1..Len(nanos) |-> Amount(nanos[i])]

\* orders.reduce((sum, order) => sum + order.qty, 0), from sum on
RECURSIVE TotalQty(_, _)
TotalQty(qtys, sum) ==
    IF qtys = <<>> THEN sum ELSE TotalQty(Tail(qtys), DoublePlus(sum, Head(qtys)))

\* Math.floor(((order.qty * availableQty) / totalQty) * 1e9) / 1e9
RoundedShare(qty, availableQty, totalQty) ==
    DoubleOver(DoubleFloor(DoubleTimes(DoubleDivide(DoubleMultiply(qty, availableQty),
                                                    totalQty),
                                       Precision)), Precision)

\* the rest of the loop of allocateProRata, roundedQty being the share of the
\* order at hand
RECURSIVE ShareLoop(_, _, _, _)
ShareStep(roundedQty, qtys, availableQty, totalQty, remaining) ==
    <<roundedQty>> \o ShareLoop(Tail(qtys), availableQty, totalQty,
                                DoubleMinus(remaining, roundedQty))

\* the loop of allocateProRata over the orders' quantities: the filled
\* quantities, of which the last is what remains
ShareLoop(qtys, availableQty, totalQty, remaining) ==
    IF Len(qtys) = 1
    THEN <<remaining>>
    ELSE ShareStep(RoundedShare(Head(qtys), availableQty, totalQty),
                   qtys, availableQty, totalQty, remaining)

\* allocateProRata from totalQty on: the filledQty of its allocations
Shares(qtys, availableQty, totalQty) ==
    IF DoubleLeq(totalQty, availableQty)
    THEN qtys
    ELSE ShareLoop(qtys, availableQty, totalQty, availableQty)

\* allocateProRata: the filledQty of its allocations
FilledQuantities(qtys, availableQty) ==
    IF NonPositive(availableQty) \/ qtys = <<>> THEN <<>>
    ELSE Shares(qtys, availableQty, TotalQty(qtys, Zero))

\* Math.min(a, b)
DoubleMin(a, b) == IF DoubleLeq(a, b) THEN a ELSE b

\* matchOrders from totalVolume on
Allocated(sortedBuys, sortedSells, totalVolume) ==
    [buy |-> FilledQuantities(sortedBuys, totalVolume),
     sell |-> FilledQuantities(sortedSells, totalVolume),
     totalVolume |-> totalVolume]

\* matchOrders from totalBuyVolume on
AllocationStage(sortedBuys, sortedSells) ==
    Allocated(sortedBuys, sortedSells,
              DoubleMin(TotalQty(sortedBuys, Zero), TotalQty(sortedSells, Zero)))

\* an order comes in that takes part at the clearing price
SubmitBuyQty ==
    /\ Len(buyQtys) < MaxBuyQtys
    /\ \E k \in NanoQtys : buyQtys' = Append(buyQtys, k)
    /\ fills' = <<>>
    /\ UNCHANGED sellQtys

SubmitSellQty ==
    /\ Len(sellQtys) < MaxSellQtys
    /\ \E k \in NanoQtys : sellQtys' = Append(sellQtys, k)
    /\ fills' = <<>>
    /\ UNCHANGED buyQtys

\* matchOrders on a book whose orders all take part
AllocateOrders ==
    /\ buyQtys # <<>>
    /\ sellQtys # <<>>
    /\ fills' = AllocationStage(Amounts(buyQtys), Amounts(sellQtys))
    /\ UNCHANGED <<buyQtys, sellQtys>>

NextAllocation ==
    \/ SubmitBuyQty /\ UNCHANGED <<vars, mvars, tvars, cvars, ovars, svars>>
    \/ SubmitSellQty /\ UNCHANGED <<vars, mvars, tvars, cvars, ovars, svars>>
    \/ AllocateOrders /\ UNCHANGED <<vars, mvars, tvars, cvars, ovars, svars>>

\* the allocation stage alone
SpecAllocation == Init /\ [][NextAllocation]_pvars

\* ---- the claims ----

\* the invocation that drew an identifier
PassOf(id) == (id - 1) \div (Len(Markets) * lookAheadBatches) + 1

\* the market's future batches as planMarketBatches counts them
FutureCount(marketId) ==
    Cardinality({r \in rows : /\ r.marketId = marketId
                              /\ r.status \in {"PLANNED", "INCLUSION_PUBLISHED"}
                              /\ r.eta > now})

Within(a, b) == a - b <= ToleranceMs /\ b - a <= ToleranceMs

\* C1 (as claimed): with no reservation failure, once a market has
\* lookAheadBatches future batches it stays at lookAheadBatches under further
\* planning (every step that leaves the clock alone keeps the count).
C1_StaysAtLookAhead ==
    [][\A m \in MarketIds :
           (faults' = 0 /\ now' = now /\ FutureCount(m) = lookAheadBatches)
               => FutureCount(m)' = lookAheadBatches]_vars

\* C2 (as claimed, in the runs where nothing fails): the client is asked to
\* reserve a given (market, slot) at most once.
C2_ReservedAtMostOnce ==
    faults = 0 =>
        \A c1, c2 \in reserveCalls :
            (c1.market = c2.market /\ c1.slot = c2.slot) => c1 = c2

\* C3: planning passes run one after the other never leave two PlannedBatch
\* rows with the same market and the same eta.
C3_NoDuplicateEta ==
    \A r1, r2 \in rows :
        (r1.marketId = r2.marketId /\ r1.eta = r2.eta) => r1 = r2

\* two passes have run back to back with no elapsed time, and both left rows
C3_Witness ==
    /\ ticks = 0
    /\ started = 2
    /\ InFlight = {}
    /\ \E r1, r2 \in rows : PassOf(r1.id) = 1 /\ PassOf(r2.id) = 2

\* C4: there is at most one PlannedBatch row per (market, slot).
C4_UniqueMarketSlot ==
    \A r1, r2 \in rows :
        (r1.marketId = r2.marketId /\ r1.slot = r2.slot) => r1 = r2

\* a pass holds a reservation for a (market, slot) that already has a row: its
\* create was or will be rejected by the unique index
C4_Witness ==
    \E p \in PassSlots :
        /\ pass[p].pc \in {"create", "createFailed"}
        /\ pass[p].reservationId # NoId
        /\ UniqueViolation(MarketOf(pass[p]), TargetSlot(BatchTime(pass[p])))

\* C5 (as claimed, in the runs where nothing fails): no two PlannedBatch rows
\* of a market have etas within the tolerance window of each other.
C5_NoEtaWithinTolerance ==
    faults = 0 =>
        \A r1, r2 \in rows :
            (r1.marketId = r2.marketId /\ Within(r1.eta, r2.eta)) => r1 = r2

\* the pass that made a reservation request is still in planSingleBatch for it
Handling(c) ==
    \E p \in PassSlots :
        /\ pass[p].pc \in {"create", "createFailed"}
        /\ FreshId(pass[p]) = c.id

PlannedRowsCarryReservation ==
    \A r \in rows :
        r.status = "PLANNED" =>
            /\ r.raikuResId # NoId
            /\ \E c \in reserveCalls :
                   /\ c.ok /\ c.id = r.raikuResId
                   /\ c.market = r.marketId /\ c.slot = r.slot

FailedRow(ps) ==
    NewRow(FreshId(ps), MarketOf(ps), BatchTime(ps), "FAILED", NoId)

\* C6 (as claimed): once planSingleBatch is over for a candidate whose
\* reservation request failed, a FAILED PlannedBatch with no reservation
\* identifier exists for that market, slot and eta; every PLANNED row carries
\* the identifier the client returned for its slot.
C6_FailedReservationRecorded ==
    /\ PlannedRowsCarryReservation
    /\ \A c \in reserveCalls :
           (~c.ok /\ ~Handling(c)) =>
               \E r \in rows :
                   /\ r.marketId = c.market /\ r.slot = c.slot /\ r.eta = c.eta
                   /\ r.status = "FAILED" /\ r.raikuResId = NoId

\* C6 (amended): a failed reservation request takes the pass to the write of a
\* FAILED row with no reservation identifier for that market, slot and eta, and
\* the row is stored unless the write itself fails (a row of that market and
\* slot exists, or persistence fails); every PLANNED row carries the
\* identifier the client returned for its slot.
C6_FailedRowUnlessWriteFails ==
    /\ []PlannedRowsCarryReservation
    /\ [][\A p \in PassSlots :
              /\ (pass[p].pc = "reserveAOT" /\ pass'[p] # pass[p])
                     => \/ /\ pass'[p].pc = "create"
                           /\ pass'[p].reservationId # NoId
                           /\ faults' = faults
                        \/ /\ pass'[p].pc = "createFailed"
                           /\ faults' = faults + 1
              /\ (pass[p].pc = "createFailed" /\ pass'[p] # pass[p])
                     => \/ rows' = rows \cup {FailedRow(pass[p])}
                        \/ /\ rows' = rows
                           /\ \/ UniqueViolation(MarketOf(pass[p]),
                                                 TargetSlot(BatchTime(pass[p])))
                              \/ faults' = faults + 1]_vars

\* a reservation request failed and its FAILED row is stored
C6_Witness ==
    \E c \in reserveCalls :
        /\ ~c.ok
        /\ \E r \in rows : r.id = c.id /\ r.status = "FAILED" /\ r.raikuResId = NoId

\* a FAILED row that existed when the pass started, in the tolerance window of
\* the candidate
FailedBefore(ps, marketId, batchTime) ==
    {r \in rows : /\ r.status = "FAILED"
                  /\ r.id \in ps.startIds
                  /\ r.marketId = marketId
                  /\ Within(r.eta, batchTime)}

\* C7: a pass started after a FAILED row exists requests no reservation for a
\* candidate in the tolerance window of that row's eta, and no step changes or
\* removes a FAILED row.
C7_NoRetryOfFailed ==
    [][/\ \A p \in PassSlots :
              (pass[p].pc = "reserveAOT" /\ reserveCalls' # reserveCalls
                  /\ pass'[p] # pass[p])
                  => FailedBefore(pass[p], MarketOf(pass[p]), BatchTime(pass[p])) = {}
       /\ \A r \in rows : r.status = "FAILED" => r \in rows']_vars

\* a pass has gone past a candidate in the tolerance window of an older FAILED
\* row without a reservation request
C7_Witness ==
    \E p \in PassSlots :
        /\ pass[p].pc # "idle"
        /\ pass[p].bi > 1
        /\ FailedBefore(pass[p], MarketOf(pass[p]), pass[p].batchesToPlan[1]) # {}
        /\ \A c \in reserveCalls : PassOf(c.id) # pass[p].no

\* C8: a pass that has its market list goes through every candidate of every
\* market in order, whatever fails: a step keeps the candidate, moves to the
\* next candidate, moves to the first candidate of the next market after the
\* last candidate, or ends the pass after the last candidate of the last market.
C8_PassVisitsEveryCandidate ==
    [][\A p \in PassSlots :
           (pass[p].pc \notin {"idle", "findMany"} /\ pass'[p] # pass[p]) =>
               \/ /\ pass'[p].mi = pass[p].mi
                  /\ pass'[p].bi = pass[p].bi
                  /\ pass'[p].pc \in {"reserveAOT", "create", "createFailed"}
               \/ /\ pass'[p].mi = pass[p].mi
                  /\ pass'[p].bi = pass[p].bi + 1
                  /\ pass[p].bi < lookAheadBatches
                  /\ pass'[p].pc = "findFirst"
               \/ /\ pass[p].bi = lookAheadBatches
                  /\ pass[p].mi < Len(Markets)
                  /\ pass'[p].mi = pass[p].mi + 1
                  /\ pass'[p].bi = 1
                  /\ pass'[p].pc = "findFirst"
               \/ /\ pass[p].bi = lookAheadBatches
                  /\ pass[p].mi = Len(Markets)
                  /\ pass'[p].pc = "idle"]_vars

\* a pass is at its second market after a reservation request for its first
\* market failed
C8_Witness ==
    \E p \in PassSlots :
        /\ pass[p].mi = 2
        /\ \E c \in reserveCalls :
               ~c.ok /\ PassOf(c.id) = pass[p].no /\ c.market = Markets[1]

\* the rows an order may join now
Assignable(marketId) ==
    {r \in rows : /\ r.marketId = marketId
                  /\ r.status = "PLANNED"
                  /\ r.eta > now + cutoffLeadMs}

\* C9: findNextBatchForOrder returns a PLANNED batch of the market with eta
\* later than now + cutoffLeadMs and no such batch has a smaller eta, with
\* cutoffTime = eta - cutoffLeadMs, which is in the future; it returns no batch
\* exactly when none qualifies or persistence fails.
C9_NextBatchIsEarliestAssignable ==
    \A m \in MarketIds : \A dbError \in BOOLEAN :
        /\ findNextBatchForOrder(m, dbError) # {}
        /\ \A res \in findNextBatchForOrder(m, dbError) :
               /\ res.batch = NoId <=> (dbError \/ Assignable(m) = {})
               /\ res.batch # NoId =>
                      /\ \E r \in Assignable(m) :
                             /\ r.id = res.batch
                             /\ r.slot = res.slot
                             /\ r.eta = res.eta
                      /\ \A o \in Assignable(m) : res.eta <= o.eta
                      /\ res.cutoffTime = res.eta - cutoffLeadMs
                      /\ res.cutoffTime > now

\* a market has an assignable batch, and an earlier batch that is FAILED or
\* past its cutoff
C9_Witness ==
    \E m \in MarketIds :
        \E res \in findNextBatchForOrder(m, FALSE) :
            /\ res.batch # NoId
            /\ \E r \in rows : /\ r.marketId = m
                               /\ r.eta < res.eta
                               /\ r.status = "FAILED"
            /\ \E r \in rows : /\ r.marketId = m
                               /\ r.status = "PLANNED"
                               /\ r.eta <= now + cutoffLeadMs

TimerMatchesRunning ==
    /\ Cardinality(timers) <= 1
    /\ isRunning <=> timers # {}
    /\ isRunning => intervalId \in timers
    /\ ~isRunning => intervalId = NoId

\* C10: at most one interval timer is active, one is active exactly when
\* isRunning is true, and start() while running changes nothing.
C10_OneTimerWhileRunning ==
    /\ []TimerMatchesRunning
    /\ [][(isRunning /\ Start) => UNCHANGED vars]_vars
    /\ [][(isRunning /\ isRunning') =>
              (timers' = timers /\ intervalId' = intervalId)]_vars

\* the planner is running with its timer while a pass is in flight and another
\* may start
C10_Witness ==
    /\ isRunning
    /\ timers = {intervalId}
    /\ InFlight # {}
    /\ started < MaxPasses

\* a step of a planAllMarkets invocation in flight
PassStep ==
    \E p \in PassSlots :
        \/ PassFindMany(p)
        \/ PassFindFirst(p)
        \/ PassReserveAOT(p)
        \/ PassCreate(p)
        \/ PassCreateFailed(p)

\* C11: stop() on a stopped planner changes nothing; the timer starts a pass
\* only while the planner is running (so none between stop() and the next
\* start()); stop() leaves the passes in flight as they are, and a pass in
\* flight can always take its next step, stopped or not.
C11_StopHaltsTimerOnly ==
    /\ [][(~isRunning /\ Stop) => UNCHANGED vars]_vars
    /\ [][TimerFire => isRunning]_vars
    /\ [][Stop => pass' = pass]_vars
    /\ [](InFlight # {} => ENABLED PassStep)

\* the planner is stopped and holds no timer while a pass is in flight and
\* another could still be started
C11_Witness ==
    /\ ~isRunning
    /\ intervalId = NoId
    /\ timers = {}
    /\ InFlight # {}
    /\ started >= 1
    /\ started < MaxPasses

\* ---- the claims on the matching engine ----

\* the orderings of an input array
Reorderings(orders) ==
    {[i \in 1..Len(orders) |-> orders[f[i]]] : f \in Permutations(1..Len(orders))}

\* the same clearing price, total volume and set of allocations
SameOutcome(r1, r2) ==
    /\ r1.clearingPrice = r2.clearingPrice
    /\ r1.totalVolume = r2.totalVolume
    /\ Range(r1.allocations) = Range(r2.allocations)

\* C12 (as claimed): matchOrders returns the same clearing price, total volume
\* and set of allocations for every ordering of the buys and sells arrays.
C12_PermutationInvariant ==
    result # <<>> =>
        \A bs \in Reorderings(buys), ss \in Reorderings(sells) :
            SameOutcome(result[1], matchOrders(bs, ss, tickSize))

\* allocations.reduce((sum, a) => sum + a.filledQty, 0)
RECURSIVE SumFilled(_, _)
SumFilled(allocations, sum) ==
    IF allocations = <<>> THEN sum
    ELSE SumFilled(Tail(allocations), DoublePlus(sum, Head(allocations).filledQty))

\* the allocations of a result to the orders of one side
SideAllocations(r, orders) ==
    SelectSeq(r.allocations, LAMBDA a : \E i \in 1..Len(orders) : orders[i].id = a.orderId)

\* C13 (as claimed): in every result the filled quantities of the buy side and
\* those of the sell side each sum to totalVolume.
C13_Conservation ==
    result # <<>> =>
        /\ SumFilled(SideAllocations(result[1], buys), Double(0))
               = Double(result[1].totalVolume)
        /\ SumFilled(SideAllocations(result[1], sells), Double(0))
               = Double(result[1].totalVolume)

\* the orders of a side that take part at the clearing price of a result
Participating(r, side) ==
    IF side = "BUY" THEN ValidBuys(buys, r.clearingPrice)
    ELSE ValidSells(sells, r.clearingPrice)

\* a side of a result is over-subscribed: the quantity taking part exceeds
\* the volume
OverSubscribed(r, side) ==
    /\ r.allocations # <<>>
    /\ SumQty(Participating(r, side)) > r.totalVolume

\* C14 (as claimed): the filled quantities of an over-subscribed side sum
\* exactly to the available volume, and none of them is negative.
C14_ProRataExact ==
    result # <<>> =>
        \A side \in {"BUY", "SELL"} :
            OverSubscribed(result[1], side) =>
                LET allocations ==
                        SideAllocations(result[1], IF side = "BUY" THEN buys ELSE sells)
                IN  /\ SumFilled(allocations, Double(0)) = Double(result[1].totalVolume)
                    /\ \A i \in 1..Len(allocations) : ~allocations[i].filledQty.neg

\* the quantity and limit price of each order of a side
Quotes(orders) == {<<orders[i].qty, orders[i].limitPx>> : i \in 1..Len(orders)}

\* the filled quantity a result gives to an order, none if it has no allocation
FilledOf(r, id) ==
    {r.allocations[i].filledQty : i \in {j \in 1..Len(r.allocations) :
                                             r.allocations[j].orderId = id}}

\* every order of a side has one allocation, of the given quantity
AllFilled(r, orders, qty) ==
    \A i \in 1..Len(orders) : FilledOf(r, orders[i].id) = {Double(qty)}

\* C15 (as claimed): buys {100@10.5, 100@10.0}, sells {100@11.0, 100@11.5} and
\* tick 0.01 give clearing price 10.5, total volume 200 and four allocations
\* of 100.
C15_MidpointExample ==
    ( /\ result # <<>>
      /\ tickSize = 2
      /\ Len(buys) = 2 /\ Quotes(buys) = {<<100, 2100>>, <<100, 2000>>}
      /\ Len(sells) = 2 /\ Quotes(sells) = {<<100, 2200>>, <<100, 2300>>} )
    => /\ result[1].clearingPrice = 2100
       /\ result[1].totalVolume = 200
       /\ Len(result[1].allocations) = 4
       /\ AllFilled(result[1], buys, 100)
       /\ AllFilled(result[1], sells, 100)

\* C16 (as claimed): buys {50@11.0, 50@11.0}, sells {70@10.0} and tick 0.01
\* give clearing price 10.5, each buy filled 35 and the sell filled 70.
C16_ImbalancedExample ==
    ( /\ result # <<>>
      /\ tickSize = 2
      /\ Len(buys) = 2 /\ Quotes(buys) = {<<50, 2200>>}
      /\ Len(sells) = 1 /\ Quotes(sells) = {<<70, 2000>>} )
    => /\ result[1].clearingPrice = 2100
       /\ AllFilled(result[1], buys, 35)
       /\ AllFilled(result[1], sells, 70)

\* C17 (as claimed): a market buy of quantity q against a limit sell of
\* quantity q at a price p on the tick grid clears at p with volume q, and the
\* market buy is filled q at price p.
C17_MarketBuyTakesLimitSell ==
    ( /\ result # <<>>
      /\ Len(buys) = 1 /\ buys[1].type = "MARKET"
      /\ Len(sells) = 1 /\ sells[1].type = "LIMIT"
      /\ buys[1].qty = sells[1].qty
      /\ alignToTick(sells[1].limitPx, tickSize) = sells[1].limitPx )
    => /\ result[1].clearingPrice = sells[1].limitPx
       /\ result[1].totalVolume = buys[1].qty
       /\ \E i \in 1..Len(result[1].allocations) :
              result[1].allocations[i]
                  = Allocation(buys[1], Double(buys[1].qty), sells[1].limitPx)

\* C18 (as claimed): with no buys and some sells the clearing price is the
\* lowest sell limit price aligned to the tick, or 0 if the best sell is a
\* market order.
C18_NoBuysBestAsk ==
    (result # <<>> /\ buys = <<>> /\ sells # <<>>)
    => result[1].clearingPrice = alignToTick(NoBuysPriceBest(sells), tickSize)

\* C19: a book with no buys or no sells never trades: the result has total
\* volume 0 and no allocations, and with no sells (or with neither side) the
\* clearing price is 0.
C19_OneSidedNeverTrades ==
    (result # <<>> /\ (buys = <<>> \/ sells = <<>>))
    => /\ result[1].totalVolume = 0
       /\ result[1].allocations = <<>>
       /\ sells = <<>> => result[1].clearingPrice = 0

\* a book of two buys, one a market order, and no sells has been matched
C19_Witness ==
    /\ result # <<>>
    /\ sells = <<>>
    /\ Len(buys) = 2
    /\ \E i \in 1..2 : buys[i].type = "MARKET"
    /\ \E i \in 1..2 : buys[i].type = "LIMIT"
    /\ result[1] = MatchingResult(0, <<>>, 0)

\* the order of the book with the given id
OrderOf(id) == CHOOSE o \in Range(buys) \cup Range(sells) : o.id = id

\* an order may take part at a clearing price
TakesPart(o, clearingPrice) ==
    \/ o.type = "MARKET"
    \/ o.side = "BUY" /\ o.limitPx >= clearingPrice
    \/ o.side = "SELL" /\ o.limitPx <= clearingPrice

IsFinite(price) == price < Infinity

\* every order of the book is a market order
AllMarketBook == \A o \in Range(buys) \cup Range(sells) : o.type = "MARKET"

\* C21 (as claimed): the clearing price of a result is an exact multiple of
\* tickSize whenever it is not 0 and the book is not all market orders.
C21_TickAligned ==
    (result # <<>> /\ result[1].clearingPrice # 0 /\ ~AllMarketBook)
    => /\ IsFinite(result[1].clearingPrice)
       /\ result[1].clearingPrice % tickSize = 0

\* C22 (as claimed): on every book, the empty, the one-sided and the
\* all-market ones included, the clearing price, the total volume, the
\* filled quantities and the fill prices of the result are finite and not
\* negative.
C22_WellFormedResult ==
    result # <<>> =>
        /\ IsFinite(result[1].clearingPrice) /\ result[1].clearingPrice >= 0
        /\ IsFinite(result[1].totalVolume) /\ result[1].totalVolume >= 0
        /\ \A i \in 1..Len(result[1].allocations) :
               /\ ~result[1].allocations[i].filledQty.neg
               /\ IsFinite(result[1].allocations[i].fillPrice)
               /\ result[1].allocations[i].fillPrice >= 0

\* ---- the claims on the Merkle tree ----

\* the last getProof call asked for one of the leaves the tree was built from
AskedInputLeaf == asked # <<>> /\ asked[1] >= 0 /\ asked[1] < Len(leaves)

\* C23: for a tree built from N >= 1 leaves and every index in [0, N),
\* getProof returns a proof and verify accepts its leaf against the root of
\* the tree, whatever index the proof carries: verify reads no position.
C23_RoundTrip ==
    AskedInputLeaf =>
        /\ proof # <<>>
        /\ \A index \in Indices :
               verify(proof[1].leaf, [proof[1] EXCEPT !.index = index], tree[1].root)
        /\ (verified # <<>> /\ verified[1].leaf = proof[1].leaf
                            /\ verified[1].root = tree[1].root)
               => verified[1].valid

\* the proof of a right-hand leaf of a padded tree of three levels has been
\* verified and accepted
C23_Witness ==
    /\ Len(leaves) = 5
    /\ AskedInputLeaf
    /\ asked[1] % 2 = 1
    /\ Len(proof[1].path) = 3
    /\ verified # <<>>
    /\ verified[1].leaf = proof[1].leaf
    /\ verified[1].root = tree[1].root
    /\ verified[1].valid

\* C24 (as claimed): with a proof of getProof, verify returns false for a
\* leaf other than the proved one and for a root other than the tree's.
C24_TamperDetected ==
    verified # <<>> =>
        /\ verified[1].leaf # proof[1].leaf => ~verified[1].valid
        /\ verified[1].root # tree[1].root => ~verified[1].valid

\* C25 (as claimed): getProof returns null for every index below 0 and for
\* every index at or above the number of leaves the tree was built from,
\* the indices of padding leaves among them.
C25_NullOutsideInput ==
    (asked # <<>> /\ (asked[1] < 0 \/ asked[1] >= Len(leaves))) => proof = <<>>

\* C26: buildTree throws exactly when the leaf list is empty; on a list
\* that is not empty it returns a tree and leaves the caller's list as it was.
C26_ThrowsOnlyOnEmpty ==
    [][BuildTree => /\ thrown' = (leaves = <<>>)
                    /\ (tree' # <<>>) = (leaves # <<>>)
                    /\ leaves' = leaves]_tvars

\* a tree built from three leaves holds a padding leaf and the caller's list
\* still has three
C26_Witness ==
    /\ tree # <<>>
    /\ Len(leaves) = 3
    /\ Len(tree[1].leaves) = 4
    /\ ~thrown

\* p is the least power of two that is at least n
LeastPowerOfTwo(p, n) ==
    /\ p >= n
    /\ \E k \in 0..n : p = 2 ^ k
    /\ p = 1 \/ p \div 2 < n

\* C27: the leaf level of a tree built from N >= 1 leaves has
\* nextPowerOfTwo(N) entries, the N leaves in order and then all-zero digests
\* of 32 bytes; every level above has half the entries of the one below;
\* there are log2 of the padded count levels of combination, and the top
\* level is the root alone.
C27_TreeShape ==
    tree # <<>> =>
        LET t == tree[1]
            padded == Len(t.tree[1])
        IN  /\ Len(leaves) >= 1
            /\ LeastPowerOfTwo(padded, Len(leaves))
            /\ t.leaves = t.tree[1]
            /\ \A i \in 1..padded :
                   t.tree[1][i] = IF i <= Len(leaves) THEN leaves[i]
                                  ELSE [b \in 1..32 |-> 0]
            /\ \A level \in 2..Len(t.tree) :
                   2 * Len(t.tree[level]) = Len(t.tree[level - 1])
            /\ 2 ^ (Len(t.tree) - 1) = padded
            /\ t.tree[Len(t.tree)] = <<t.root>>

\* a tree of five leaves, padded to eight, of three levels of combination
C27_Witness ==
    /\ tree # <<>>
    /\ Len(leaves) = 5
    /\ Len(tree[1].tree) = 4
    /\ tree[1].leaves[8] = ZeroBuffer

\* C28: a tree built from one leaf has one level and that leaf, unchanged
\* and alone, is its root.
C28_SingleLeafIdentity ==
    (tree # <<>> /\ Len(leaves) = 1) =>
        /\ Len(tree[1].tree) = 1
        /\ tree[1].leaves = leaves
        /\ tree[1].root = leaves[1]

\* a tree has been built from one leaf
C28_Witness ==
    /\ tree # <<>>
    /\ Len(leaves) = 1
    /\ tree[1].root \in LeafPool

\* the digests and leaves at hand: the nodes of the tree, the leaves of the
\* model and the padding
Buffers ==
    LeafPool \cup {ZeroBuffer}
    \cup (IF tree = <<>> THEN {}
          ELSE UNION {Range(tree[1].tree[level]) : level \in 1..Len(tree[1].tree)})

\* C29: hashNode(a, b) = hashNode(b, a) for all a and b: it is the digest of
\* the lesser followed by the greater.
C29_HashNodeCommutes ==
    \A a, b \in Buffers :
        /\ hashNode(a, b) = hashNode(b, a)
        /\ compare(a, b) <= 0 => hashNode(a, b) = sha256(a \o b)

\* a tree whose root combines a pair given greater first
C29_Witness ==
    /\ tree # <<>>
    /\ Len(leaves) = 2
    /\ compare(leaves[1], leaves[2]) > 0
    /\ tree[1].root = sha256(leaves[2] \o leaves[1])

\* ---- claims on the Raiku client ----

\* the invocations of a callback with a receipt of one of the types for the
\* reservation
Invocations(callback, id, types) ==
    {i \in 1..Len(deliveries) : /\ deliveries[i].callback = callback
                                /\ deliveries[i].reservationId = id
                                /\ deliveries[i].type \in types}

\* C30 (as claimed): for every reservation, each subscribed handler is
\* invoked with at most one pre-confirmation receipt and with at most one
\* terminal receipt (final-inclusion or failed), and no final-inclusion is
\* delivered before the reservation's pre-confirmation.
C30_ReceiptOrdering ==
    \A id \in 1..MaxReservations :
        /\ \A callback \in Callbacks :
               /\ Cardinality(Invocations(callback, id, {"pre-confirmation"})) <= 1
               /\ Cardinality(Invocations(callback, id, {"final-inclusion", "failed"})) <= 1
        /\ \A i, j \in 1..Len(dispatched) :
               ~ /\ i < j
                 /\ dispatched[i] = [type |-> "final-inclusion", reservationId |-> id]
                 /\ dispatched[j] = [type |-> "pre-confirmation", reservationId |-> id]

\* the onReceipt calls made with the callback
Registrations(callback) ==
    {k \in 1..Len(disposers) : disposers[k].callback = callback}

\* the entries of receiptCallbacks that hold the callback
Entries(callback) ==
    {i \in 1..Len(receiptCallbacks) : receiptCallbacks[i] = callback}

\* C31 (as claimed): the disposer onReceipt returns removes the handler for
\* good, and calling it again has no effect on other subscriptions: a
\* handler all of whose disposers have been called is not in the list any
\* more, and a handler that does not unsubscribe itself keeps one entry for
\* each of its subscriptions whose own disposer was never called.
C31_DisposerPermanent ==
    /\ \A callback \in Callbacks :
           (/\ Registrations(callback) # {}
            /\ \A k \in Registrations(callback) : disposers[k].calls > 0)
               => Entries(callback) = {}
    /\ Cardinality(Entries("logger")) >=
           Cardinality({k \in Registrations("logger") : disposers[k].calls = 0})

\* C39 (as claimed): when a receipt is dispatched, every handler subscribed
\* at that moment and still subscribed afterwards is invoked with it, also
\* when another handler calls its disposer inside its callback during the
\* dispatch.
C39_DeliveryComplete ==
    [][Len(dispatched') = Len(dispatched) + 1 =>
           \A callback \in Range(receiptCallbacks) \cap Range(receiptCallbacks') :
               \E i \in (Len(deliveries) + 1)..Len(deliveries') :
                   /\ deliveries'[i].callback = callback
                   /\ deliveries'[i].type = dispatched'[Len(dispatched')].type
                   /\ deliveries'[i].reservationId =
                          dispatched'[Len(dispatched')].reservationId]_cvars

\* ---- a further claim on the Merkle tree ----

\* the proof with its first cut siblings left out
PathTail(p, cut) == [p EXCEPT !.path = SubSeq(@, cut + 1, Len(@))]

\* C40 (as claimed): against the root of a built tree verify returns true
\* only for an input leaf of the tree, whatever the path: not for an inner
\* node of the tree with the tail of a proof of getProof as its path.
C40_OnlyLeavesValidate ==
    proof # <<>> =>
        \A cut \in 0..Len(proof[1].path) :
            \A x \in Buffers :
                verify(x, PathTail(proof[1], cut), tree[1].root) => x \in Range(leaves)

\* ---- further claims on the matching engine ----

\* the distinct limit prices of the book
LimitLevels ==
    {o.limitPx : o \in {x \in Range(buys) \cup Range(sells) : x.limitPx # undefined}}

\* the quantity of the limit sells at or below a price
SellUpTo(price) ==
    SumQty(SelectSeq(sells, LAMBDA o : o.limitPx # undefined /\ o.limitPx <= price))

\* the quantity of the limit buys strictly below a price
BuyBelow(price) ==
    SumQty(SelectSeq(buys, LAMBDA o : o.limitPx # undefined /\ o.limitPx < price))

\* the crossing test at a level
Crosses(price) == BuyBelow(price) >= SellUpTo(price) /\ SellUpTo(price) > 0

CandidateBase(m, table, t) ==
    LET future == {r.eta : r \in {x \in table : /\ x.marketId = m
                                                /\ x.status \in {"PLANNED", "INCLUSION_PUBLISHED"}
                                                /\ x.eta > t}}
    IN  IF future # {}
        THEN (CHOOSE e \in future : \A o \in future : o <= e) + cadenceSec[m] * 1000
        ELSE t + cadenceSec[m] * 1000

C36_PassesOnlyAddRows ==
    [][\A r \in rows :
           \E q \in rows' : /\ q.id = r.id /\ q.marketId = r.marketId
                            /\ q.status = r.status /\ q.eta = r.eta
                            /\ q.slot = r.slot /\ q.raikuResId = r.raikuResId]_vars

\* a second pass, started over a table that had rows, has written a row of its own
C36_Witness ==
    \E p \in PassSlots :
        /\ pass[p].no = 2
        /\ pass[p].startIds # {}
        /\ \E r \in rows : r.id \notin pass[p].startIds /\ r.id > Len(Markets) * lookAheadBatches


\* the reservation identifiers the client returned to a call that is over:
\* the pass that made the call has left the candidate it reserved for
Settled(c) ==
    \A p \in PassSlots :
        ~(pass[p].pc \in {"create", "createFailed"} /\ pass[p].reservationId = c.id)

\* C38: every reservation identifier the client returned to a planning pass is
\* stored in exactly one PLANNED row once the pass has gone on from the
\* candidate it reserved for, also when the write after the reservation fails
\* or passes overlap
C38_NoOrphanReservation ==
    \A c \in reserveCalls :
        (c.ok /\ Settled(c)) =>
            Cardinality({r \in rows : r.status = "PLANNED" /\ r.raikuResId = c.id}) = 1

\* the PlannedBatch row an order is attached to
BatchOf(o) == CHOOSE r \in rows : r.id = o.plannedBatchId

\* C34: an order is attached to a batch no later than the batch's cutoff:
\* the time commitOrder created the order at is at most the batch's eta minus
\* the cutoff lead
C34_AttachedBeforeCutoff ==
    \A o \in orderTable : o.createdAt <= BatchOf(o).eta - 500


\* the slots of the scheduler's PLANNED batches
PlannedSlots == {r.slot : r \in {x \in schedulerRows : x.status = "PLANNED"}}

\* C35: ordered by slot, consecutive PLANNED batches of the RaikuScheduler's
\* market are ceil(cadenceSec * 1000 / slotDurationMs) slots apart, within a
\* pass and from the last slot of one pass to the first of the next
C35_SlotsSpacedByCadence ==
    \A a, b \in PlannedSlots :
        (a < b /\ ~\E c \in PlannedSlots : a < c /\ c < b) => b - a = 3


\* C37: no allocation of a result fills more than the quantity of its order,
\* the last order of an over-subscribed side included
C37_NoOverfill ==
    fills # <<>> =>
        /\ \A i \in 1..Len(fills.buy) : DoubleLeq(fills.buy[i], Amount(buyQtys[i]))
        /\ \A i \in 1..Len(fills.sell) : DoubleLeq(fills.sell[i], Amount(sellQtys[i]))

====
